---- MODULE Spec2Model ----
(***************************************************************************)
(* Verification model of pr-checklist-to-sheets.                           *)
(*                                                                         *)
(* Text is modelled as a sequence of one-character strings.  The link      *)
(* section marker "<!-- checklist-to-sheets -->" is one token "M": it      *)
(* starts with its only "<" and ends with its only ">", so two occurrences *)
(* never overlap, and it holds none of the characters "[", "]", "(", ")"   *)
(* or a line break that upsertLinkSection puts next to it, so no           *)
(* occurrence can be formed across the seam of a concatenation.            *)
(***************************************************************************)
EXTENDS Integers, Sequences, FiniteSets, TLC

VARIABLES
    \* ---- parseChecklistBlock applied to one document ----
    pbody,          \* the document body
    pmarkers,       \* <<startMarker, endMarker>>
    ppc,            \* "ready" | "parsed"
    presult,        \* [threw, items] returned by parseChecklistBlock
    \* ---- upsertLinkSection applied repeatedly to one PR body ----
    ubody,          \* the body after the applications so far
    uorig,          \* the body before the first application
    ulink,          \* link of the last application
    ulabel,         \* label of the last application
    ucount,         \* number of applications so far
    \* ---- columnToLetter applied to one column index ----
    ccolumn,        \* the argument column
    ctemp,          \* the local temp
    cletter,        \* the local letter
    cpc,            \* "loop" | "returned"
    \* ---- buildSideBySideRows applied to one input (both variants) ----
    litems,         \* shared-roster variant: the items
    lmembers,       \* shared-roster variant: the members
    lparsed,        \* per-reviewer variant: the parsed checklists
    lvalues,        \* the rows returned
    lpc,            \* "ready" | "shared" | "perReviewer"
    \* ---- per-reviewer variant: parsing and layout of one run ----
    rreviewers,     \* the roster readReviewersConfig returned
    rsources,       \* allSources
    rparsed,        \* parsedChecklists
    rthrew,         \* new RegExp(...) threw a SyntaxError
    rvalues,        \* the grid, <<>> while not built
    rpc,            \* "ready" | "parsed" | "laid" | "done"
    \* ---- appendToSheet of several runs on one spreadsheet ----
    gtabs,          \* the tabs of the spreadsheet: set of [title, by, written]
    gtitle,         \* per run: sheetTitle (suffix number), 0 before
    gpc,            \* per run: "get" | "add" | "write" | "done" | "failed"
    \* ---- one run of the action ----
    pc,             \* the stage run() is at
    prNumber,       \* payload.pull_request.number
    prBody,         \* payload.pull_request.body
    members,        \* the roster readMembersConfig returned
    allPrNumbers,   \* fetchMergedPrsBetween: numbers collected from the search
    batchI,         \* fetchMergedPrsBetween: loop index i (0-based)
    pending,        \* positions of the current batch whose request is in flight
    batchResults,   \* what Promise.all has collected for the current batch
    results,        \* fetchMergedPrsBetween: results so far / the merged PRs
    reordered,      \* some request completed while an earlier one was in flight
    allSources,     \* run: PR sources after de-duplication
    allItems,       \* run: aggregated checklist items
    values,         \* run: the grid, <<>> while not built
    startCell,      \* run: <<row, column>> of the start cell, from 0; <<>> before
    tabs,           \* the spreadsheet: set of [title, grid, styled]
    sheetTitle,     \* appendToSheet: chosen title (suffix number), 0 before
    createdSheetId, \* appendToSheet: gid of the new tab, "undefined" if none
    appendReturned, \* appendToSheet has returned to run
    requests,       \* appendToSheet: the formatting requests sent, <<>> if none
    destCalls,      \* calls made so far to Sheets and to pulls.update
    nextBody,       \* run: upserted body, <<>> before
    postedBody,     \* body sent with pulls.update, <<>> if none
    setFailed       \* messages passed to core.setFailed

parseVars == <<pbody, pmarkers, ppc, presult>>

upsertVars == <<ubody, uorig, ulink, ulabel, ucount>>

columnVars == <<ccolumn, ctemp, cletter, cpc>>

layoutVars == <<litems, lmembers, lparsed, lvalues, lpc>>

reviewVars == <<rreviewers, rsources, rparsed, rthrew, rvalues, rpc>>

raceVars == <<gtabs, gtitle, gpc>>

\* the variables of the specifications of single functions
unitVars == <<parseVars, upsertVars, columnVars, layoutVars, reviewVars, raceVars>>

fetchVars == <<allPrNumbers, batchI, pending, batchResults, results, reordered>>

sheetVars == <<tabs, sheetTitle, createdSheetId, appendReturned, requests>>

runVars == <<pc, prNumber, prBody, members, allPrNumbers, batchI, pending,
             batchResults, results, reordered, allSources, allItems, values, startCell,
             tabs, sheetTitle, createdSheetId, appendReturned, requests, destCalls,
             nextBody, postedBody, setFailed>>

vars == <<pbody, pmarkers, ppc, presult,
          ubody, uorig, ulink, ulabel, ucount,
          ccolumn, ctemp, cletter, cpc,
          litems, lmembers, lparsed, lvalues, lpc,
          rreviewers, rsources, rparsed, rthrew, rvalues, rpc,
          gtabs, gtitle, gpc,
          pc, prNumber, prBody, members, allPrNumbers, batchI, pending,
          batchResults, results, reordered, allSources, allItems, values, startCell,
          tabs, sheetTitle, createdSheetId, appendReturned, requests, destCalls,
          nextBody, postedBody, setFailed>>

(***************************************************************************)
(* Bounds                                                                  *)
(***************************************************************************)
MaxPieces == 4          \* pieces a generated document body is made of

MaxUBodyLen == 4        \* tokens of the PR body upsertLinkSection starts from

MaxApplies == 2         \* applications of upsertLinkSection to one body

MaxPrs == 11            \* merged pull requests the search can return

MaxTabs == 2            \* date-titled tabs the spreadsheet can hold before the run

MaxColumn == 702        \* largest column index columnToLetter is applied to

MaxRoster == 3          \* participants of a roster buildSideBySideRows lays out

MaxItems == 3           \* entries of one list buildSideBySideRows lays out

MaxRPieces == 4         \* pieces a generated per-reviewer document is made of

MaxRuns == 2            \* runs that write to one spreadsheet at the same time

(***************************************************************************)
(* Text helpers                                                            *)
(***************************************************************************)
NL == "\n"

Min(S) == CHOOSE x \in S : \A y \in S : x <= y

Max(S) == CHOOSE x \in S : \A y \in S : x >= y

RECURSIVE Concat(_)
Concat(ss) == IF ss = <<>> THEN <<>> ELSE Head(ss) \o Concat(Tail(ss))

\* String.prototype.includes / indexOf on literal text; 0 when absent.
IsAt(text, pat, i) ==
    /\ i >= 1
    /\ i + Len(pat) - 1 <= Len(text)
    /\ \A k \in 1..Len(pat) : text[i + k - 1] = pat[k]

IndexOfFrom(text, pat, from) ==
    LET c == {i \in from..(Len(text) + 1) : IsAt(text, pat, i)}
    IN IF c = {} THEN 0 ELSE Min(c)

Includes(text, pat) == IndexOfFrom(text, pat, 1) # 0

\* \s of a JavaScript regular expression, and what trim() strips.
IsWs(c) == c \in {" ", NL}

\* String.prototype.trim
Trim(line) ==
    LET keep == {i \in 1..Len(line) : ~IsWs(line[i])}
    IN IF keep = {} THEN <<>> ELSE SubSeq(line, Min(keep), Max(keep))

\* String.prototype.split("\n")
RECURSIVE SplitLines(_)
SplitLines(text) ==
    LET i == IndexOfFrom(text, <<NL>>, 1)
    IN IF i = 0 THEN <<text>>
       ELSE <<SubSeq(text, 1, i - 1)>> \o SplitLines(SubSeq(text, i + 1, Len(text)))

(***************************************************************************)
(* Regular expressions built from the markers                              *)
(***************************************************************************)
\* The characters of the class [.*+?^${}()|[\]\\] escaped by the replace call.
RegexSpecials == {".", "*", "+", "?", "^", "$", "{", "}", "(", ")", "|", "[", "]", "\\"}

\* marker.replace(/[.*+?^${}()|[\]\\]/g, "\\$&"): a backslash before each special.
EscapeRegExp_NoEscape(marker) == marker

EscapeRegExp(marker) ==
    Concat([k \in 1..Len(marker) |->
        IF marker[k] \in RegexSpecials THEN <<"\\", marker[k]>> ELSE <<marker[k]>>])

\* new RegExp(source) for the sources a marker gives: an escaped character is
\* a literal, an unescaped "." is any character but a line break, every other
\* character is a literal.
RECURSIVE CompilePattern(_)
CompilePattern(src) ==
    IF src = <<>> THEN <<>>
    ELSE IF Head(src) = "\\" /\ Len(src) >= 2
         THEN <<[kind |-> "lit", ch |-> src[2]]>> \o CompilePattern(SubSeq(src, 3, Len(src)))
    ELSE IF Head(src) = "."
         THEN <<[kind |-> "any", ch |-> "."]>> \o CompilePattern(Tail(src))
    ELSE <<[kind |-> "lit", ch |-> Head(src)]>> \o CompilePattern(Tail(src))

ElemMatches(el, c) == IF el.kind = "any" THEN c # NL ELSE c = el.ch

PatAt(text, pat, i) ==
    /\ i >= 1
    /\ i + Len(pat) - 1 <= Len(text)
    /\ \A k \in 1..Len(pat) : ElemMatches(pat[k], text[i + k - 1])

FindPat(text, pat, from) ==
    LET c == {i \in from..(Len(text) + 1) : PatAt(text, pat, i)}
    IN IF c = {} THEN 0 ELSE Min(c)

\* Length of the run of whitespace that starts at position p.
WsRun(text, p) ==
    LET stop == {i \in p..Len(text) : ~IsWs(text[i])}
    IN IF stop = {} THEN Len(text) + 1 - p ELSE Min(stop) - p

\* body.match(start \s* ([\s\S]*?) end): the leftmost start that can be
\* completed; \s* is greedy and gives whitespace back only when no end
\* follows; the group is lazy and stops at the next end.
\* a greedy group: up to the last end
BlockMatchAt_Greedy(text, sp, ep, i) ==
    LET p0 == i + Len(sp)
        js == {j \in p0..(Len(text) + 1) : PatAt(text, ep, j)}
    IN IF ~PatAt(text, sp, i) \/ js = {}
       THEN [found |-> FALSE, group |-> <<>>, from |-> 0, to |-> 0]
       ELSE [found |-> TRUE, group |-> SubSeq(text, p0, Max(js) - 1),
             from |-> i, to |-> Max(js) + Len(ep) - 1]

BlockMatchAt(text, sp, ep, i) ==
    LET p0 == i + Len(sp)
        ks == {k \in 0..WsRun(text, p0) : FindPat(text, ep, p0 + k) # 0}
    IN IF ~PatAt(text, sp, i) \/ ks = {}
       THEN [found |-> FALSE, group |-> <<>>, from |-> 0, to |-> 0]
       ELSE LET k == Max(ks)
                j == FindPat(text, ep, p0 + k)
            IN [found |-> TRUE, group |-> SubSeq(text, p0 + k, j - 1),
                from |-> i, to |-> j + Len(ep) - 1]

BlockMatch(text, sp, ep) ==
    LET starts == {i \in 1..Len(text) : BlockMatchAt(text, sp, ep, i).found}
    IN IF starts = {}
       THEN [found |-> FALSE, group |-> <<>>, from |-> 0, to |-> 0]
       ELSE BlockMatchAt(text, sp, ep, Min(starts))

(***************************************************************************)
(* parseChecklistBlock (marker mode)                                       *)
(***************************************************************************)
\* line.match(/^-\s+(.+)$/) on a trimmed, non-empty line.
PlainItemMatches(line) ==
    /\ Len(line) >= 3
    /\ line[1] = "-"
    /\ IsWs(line[2])

\* the group (.+): what follows the greedy whitespace run
PlainItemNote_WholeMatch(line) == line

PlainItemNote(line) == SubSeq(line, 2 + WsRun(line, 2), Len(line))

\* .split("\n").map(trim).filter(Boolean)
NonBlankLines(text) ==
    SelectSeq([k \in 1..Len(SplitLines(text)) |-> Trim(SplitLines(text)[k])],
              LAMBDA l : l # <<>>)

\* a loop that leaves at the first line it cannot read
RECURSIVE PlainItems_StopAtUnparsable(_, _, _)
PlainItems_StopAtUnparsable(lines, prUrl, author) ==
    IF lines = <<>> \/ ~PlainItemMatches(Head(lines)) THEN <<>>
    ELSE <<[note |-> Trim(PlainItemNote(Head(lines))), prUrl |-> prUrl, author |-> author]>>
         \o PlainItems_StopAtUnparsable(Tail(lines), prUrl, author)

RECURSIVE PlainItems(_, _, _)
PlainItems(lines, prUrl, author) ==
    IF lines = <<>> THEN <<>>
    ELSE IF ~PlainItemMatches(Head(lines))
         THEN PlainItems(Tail(lines), prUrl, author)
    ELSE <<[note |-> Trim(PlainItemNote(Head(lines))), prUrl |-> prUrl, author |-> author]>>
         \o PlainItems(Tail(lines), prUrl, author)

parseChecklistBlock(body, startMarker, endMarker, prUrl, author) ==
    LET m == BlockMatch(body, CompilePattern(EscapeRegExp(startMarker)),
                              CompilePattern(EscapeRegExp(endMarker)))
    IN IF ~m.found THEN <<>>
       ELSE PlainItems(NonBlankLines(m.group), prUrl, author)

(***************************************************************************)
(* upsertLinkSection                                                       *)
(***************************************************************************)
LINK_SECTION_MARKER == "M"

MARKER == <<LINK_SECTION_MARKER>>

\* `${LINK_SECTION_MARKER}\n[${text}](${link})\n${LINK_SECTION_MARKER}`
LinkSection(link, text) ==
    MARKER \o <<NL, "[">> \o text \o <<"]", "(">> \o link \o <<")", NL>> \o MARKER

\* The replacement text String.prototype.replace(regex, string) inserts: in the
\* string "$$" stands for "$", "$&" for the matched text, "$`" for the text
\* before the match and "$'" for the text after it; the regex has no group, so
\* "$1".."$99" and "$<" stay as written.
RECURSIVE GetSubstitution(_, _, _, _)
GetSubstitution(tpl, matched, before, after) ==
    IF tpl = <<>> THEN <<>>
    ELSE IF Head(tpl) = "$" /\ Len(tpl) >= 2 /\ tpl[2] \in {"$", "&", "`", "'"}
         THEN (CASE tpl[2] = "$" -> <<"$">>
                 [] tpl[2] = "&" -> matched
                 [] tpl[2] = "`" -> before
                 [] tpl[2] = "'" -> after)
              \o GetSubstitution(SubSeq(tpl, 3, Len(tpl)), matched, before, after)
    ELSE <<Head(tpl)>> \o GetSubstitution(Tail(tpl), matched, before, after)

\* body.replace(new RegExp(MARKER + "[\\s\\S]*?" + MARKER), section): the first
\* marker up to the next one is replaced; a body with a single marker has no
\* match and comes back as it is.
\* a greedy pattern: the first marker up to the last one is replaced
ReplaceFirstSection_Greedy(body, section) ==
    LET i == IndexOfFrom(body, MARKER, 1)
        js == {k \in (i + 1)..Len(body) : body[k] = LINK_SECTION_MARKER}
    IN IF i = 0 \/ js = {} THEN body
       ELSE LET before == SubSeq(body, 1, i - 1)
                matched == SubSeq(body, i, Max(js))
                after == SubSeq(body, Max(js) + 1, Len(body))
            IN before \o GetSubstitution(section, matched, before, after) \o after

ReplaceFirstSection(body, section) ==
    LET i == IndexOfFrom(body, MARKER, 1)
        j == IndexOfFrom(body, MARKER, i + 1)
    IN IF i = 0 \/ j = 0 THEN body
       ELSE LET before == SubSeq(body, 1, i - 1)
                matched == SubSeq(body, i, j)
                after == SubSeq(body, j + 1, Len(body))
            IN before \o GetSubstitution(section, matched, before, after) \o after

upsertLinkSection(body, link, text) ==
    IF Includes(body, MARKER)
    THEN ReplaceFirstSection(body, LinkSection(link, text))
    ELSE body \o <<NL, NL>> \o LinkSection(link, text)

\* PR bodies, links and labels upsertLinkSection is exercised on
RECURSIVE SeqsUpTo(_, _)
SeqsUpTo(S, n) ==
    IF n = 0 THEN { <<>> }
    ELSE LET shorter == SeqsUpTo(S, n - 1)
         IN shorter \cup { Append(b, c) : b \in shorter, c \in S }

ULinks == { <<"u">>, <<"v">> }

\* no link and no label holds the marker
ULabels == { <<"a">>, <<"b">>, <<"$", "$">>, <<"$", "&">> }

UpsertInit ==
    /\ uorig \in SeqsUpTo({LINK_SECTION_MARKER, "a"}, MaxUBodyLen)
    /\ ubody = uorig
    /\ ulink = <<>>
    /\ ulabel = <<>>
    /\ ucount = 0

\* One run's call upsertLinkSection(body, sheetUrl, sheetLinkText) on the body
\* the previous run left.
UpsertApply ==
    /\ ucount < MaxApplies
    /\ \E link \in ULinks, label \in ULabels :
        /\ ubody' = upsertLinkSection(ubody, link, label)
        /\ ulink' = link
        /\ ulabel' = label
    /\ ucount' = ucount + 1
    /\ UNCHANGED <<uorig, parseVars, columnVars, layoutVars, reviewVars, raceVars, runVars>>

UpsertIdle ==
    /\ uorig = <<>>
    /\ ubody = <<>>
    /\ ulink = <<>>
    /\ ulabel = <<>>
    /\ ucount = 0

ParseIdle ==
    /\ pmarkers = << <<>>, <<>> >>
    /\ pbody = <<>>
    /\ ppc = "idle"
    /\ presult = [threw |-> FALSE, items |-> <<>>]

(***************************************************************************)
(* Documents and marker pairs the parser is exercised on                   *)
(***************************************************************************)
MarkerPairs ==
    { << <<"<">>, <<".">> >>,
      << <<".">>, <<"<">> >>,
      << <<"<">>, <<"<", ".">> >> }

Pieces(mk) == { mk[1], mk[2], <<"-", " ", "a">>, <<NL>>, <<"a">>, <<" ">> }

RECURSIVE Bodies(_, _)
Bodies(mk, n) ==
    IF n = 0 THEN { <<>> }
    ELSE LET shorter == Bodies(mk, n - 1)
         IN shorter \cup { b \o p : b \in shorter, p \in Pieces(mk) }

\* a description with item lines before the block, after it and in a second
\* block, and with a line of prose inside the first block
BodyTwoBlocks(mk) ==
    <<"-", " ", "b", NL>> \o mk[1] \o <<NL, "a", NL, "-", " ", "a", NL>> \o mk[2]
    \o <<NL, "-", " ", "b", NL>> \o mk[1] \o <<NL, "-", " ", "b", NL>> \o mk[2]

ParseInit ==
    /\ pmarkers \in MarkerPairs
    /\ pbody \in Bodies(pmarkers, MaxPieces) \cup { BodyTwoBlocks(pmarkers) }
    /\ ppc = "ready"
    /\ presult = [threw |-> FALSE, items |-> <<>>]

\* the url and author of the document handed to the parser
Origins == { [url |-> <<"pull", 1>>, author |-> "alice"], [url |-> <<"pull", 2>>, author |-> "bob"] }

\* One call parseChecklistBlock(body, s, e, url, author).
ParseCall ==
    /\ ppc = "ready"
    /\ ppc' = "parsed"
    /\ \E origin \in Origins :
        presult' = [threw |-> FALSE, origin |-> origin,
                    items |-> parseChecklistBlock(pbody, pmarkers[1], pmarkers[2],
                                                  origin.url, origin.author)]
    /\ UNCHANGED <<pbody, pmarkers, upsertVars, columnVars, layoutVars, reviewVars, raceVars, runVars>>

(***************************************************************************)
(* The pull requests, inputs and roster files a run can meet               *)
(***************************************************************************)
\* core.getInput("checklist-start-marker"), core.getInput("checklist-end-marker")
checklistStartMarker == <<"<">>

checklistEndMarker == <<".">>

BodyTwoItems == <<"<", NL, "-", " ", "a", NL, "-", " ", "b", NL, ".">>

BodyOneItem == <<"<", "-", " ", "c", ".">>

BodyNoBlock == <<"a">>

\* html_url of pull request n
PrUrl(n) == <<"pull", n>>

\* what pulls.get answers for pull request n
PrBodyOf(n) ==
    CASE n % 3 = 0 -> BodyTwoItems
      [] n % 3 = 1 -> BodyNoBlock
      [] OTHER -> BodyOneItem

PrAuthorOf(n) == IF n % 2 = 0 THEN "alice" ELSE "bob"

\* search.issuesAndPullRequests can list a pull request twice when the result
\* set shifts between pages; Dup lists the first number again at the end.
SearchResult(n, dup) ==
    [k \in 1..n |-> IF dup /\ n >= 2
                    THEN (IF k = n THEN n - 1 ELSE n - k)
                    ELSE n + 1 - k]

SearchResults == { SearchResult(n, dup) : n \in 0..MaxPrs, dup \in BOOLEAN }

\* bodies of the pull request the run was triggered for
CurrentBodies ==
    { BodyNoBlock,
      BodyOneItem,
      BodyOneItem \o <<NL, NL>> \o LinkSection(<<"U", "#", "g0">>, <<"L">>),
      MARKER \o BodyOneItem }

CurrentNumbers == {1, MaxPrs + 1}

\* core.getInput("sheet-link-text") || "Checklist synced to Google Sheets"
LinkTexts == { <<"L">>, <<"$", "$">> }

\* gid values addSheet can answer with; "undefined" when the reply has none
SheetIds == {"g1", "undefined"}

(***************************************************************************)
(* readMembersConfig                                                       *)
(***************************************************************************)
\* A roster file: exists, parsed.members is an array, and its entries; an
\* entry is a member name, "" for a member without a name, "null" for a
\* falsy array entry.
ConfigFiles ==
    { [exists |-> FALSE, hasArray |-> FALSE, entries |-> <<>>],
      [exists |-> TRUE, hasArray |-> FALSE, entries |-> <<>>],
      [exists |-> TRUE, hasArray |-> TRUE, entries |-> <<>>],
      [exists |-> TRUE, hasArray |-> TRUE, entries |-> <<"null">>],
      [exists |-> TRUE, hasArray |-> TRUE, entries |-> <<"Alice", "">>],
      [exists |-> TRUE, hasArray |-> TRUE, entries |-> <<"Alice">>],
      [exists |-> TRUE, hasArray |-> TRUE, entries |-> <<"Alice", "null", "Bob">>] }

readMembersConfig_AllowEmpty(cfg) ==
    LET kept == SelectSeq(cfg.entries, LAMBDA m : m # "null")
    IN IF ~cfg.exists
       THEN [ok |-> FALSE, members |-> <<>>, error |-> "Members config not found"]
       ELSE IF ~cfg.hasArray
       THEN [ok |-> FALSE, members |-> <<>>, error |-> "Config must be an object with a members array"]
       ELSE IF \E k \in 1..Len(kept) : kept[k] = ""
       THEN [ok |-> FALSE, members |-> <<>>, error |-> "Each member must have a name"]
       ELSE [ok |-> TRUE, members |-> kept, error |-> ""]

readMembersConfig(cfg) ==
    LET kept == SelectSeq(cfg.entries, LAMBDA m : m # "null")
    IN IF ~cfg.exists
       THEN [ok |-> FALSE, members |-> <<>>, error |-> "Members config not found"]
       ELSE IF ~cfg.hasArray
       THEN [ok |-> FALSE, members |-> <<>>, error |-> "Config must be an object with a members array"]
       ELSE IF Len(kept) = 0
       THEN [ok |-> FALSE, members |-> <<>>, error |-> "Members list is empty"]
       ELSE IF \E k \in 1..Len(kept) : kept[k] = ""
       THEN [ok |-> FALSE, members |-> <<>>, error |-> "Each member must have a name"]
       ELSE [ok |-> TRUE, members |-> kept, error |-> ""]

(***************************************************************************)
(* run: entry, configuration, API client                                   *)
(***************************************************************************)
\* catch (error) { core.setFailed(error.message) }: the rest of run is skipped
Throw_GoOn(message) ==
    /\ setFailed' = Append(setFailed, message)
    /\ pc' = "link"

Throw(message) ==
    /\ setFailed' = Append(setFailed, message)
    /\ pc' = "done"

\* not a pull_request event, or the trigger label is not on the PR: return
SkipRun ==
    /\ pc = "start"
    /\ pc' = "done"
    /\ UNCHANGED <<unitVars, startCell, prNumber, prBody, members, fetchVars, allSources, allItems, values,
                   sheetVars, destCalls, nextBody, postedBody, setFailed>>

\* const members = readMembersConfig(membersConfigPath)
LoadMembers ==
    /\ pc = "start"
    /\ \E cfg \in ConfigFiles :
        LET r == readMembersConfig(cfg)
        IN IF r.ok
           THEN /\ members' = r.members
                /\ pc' = "client"
                /\ UNCHANGED setFailed
           ELSE /\ Throw(r.error)
                /\ UNCHANGED members
    /\ UNCHANGED <<unitVars, startCell, prNumber, prBody, fetchVars, allSources, allItems, values,
                   sheetVars, destCalls, nextBody, postedBody>>

\* GITHUB_TOKEN is set and getLatestTagDateIso answers
CreateClient ==
    /\ pc = "client"
    /\ pc' = "search"
    /\ UNCHANGED <<unitVars, startCell, prNumber, prBody, members, fetchVars, allSources, allItems, values,
                   sheetVars, destCalls, nextBody, postedBody, setFailed>>

\* GITHUB_TOKEN is not set, or getLatestTagDateIso throws
CreateClientThrows ==
    /\ pc = "client"
    /\ \E message \in {"GITHUB_TOKEN not set; cannot fetch PR history", "listTags failed"} :
        Throw(message)
    /\ UNCHANGED <<unitVars, startCell, prNumber, prBody, members, fetchVars, allSources, allItems, values,
                   sheetVars, destCalls, nextBody, postedBody>>

(***************************************************************************)
(* fetchMergedPrsBetween                                                   *)
(***************************************************************************)
PARALLEL_BATCH_SIZE == 10

NoResult == [number |-> 0, body |-> <<>>, author |-> "", url |-> PrUrl(0), mergedAt |-> "pending"]

\* the record built from the answer of pulls.get for prNumber
PrRecord(n) ==
    [number |-> n, body |-> PrBodyOf(n), author |-> PrAuthorOf(n),
     url |-> PrUrl(n), mergedAt |-> "merged"]

\* allPrNumbers.slice(i, i + PARALLEL_BATCH_SIZE)
BatchSlice_Unbounded(numbers, i) == SubSeq(numbers, i + 1, Len(numbers))

BatchSlice(numbers, i) ==
    SubSeq(numbers, i + 1, Min({i + PARALLEL_BATCH_SIZE, Len(numbers)}))

\* Promise.all keeps the value of the k-th promise at position k, whenever it
\* settles.
StoreResult_ArrivalOrder(collected, k, record) ==
    LET free == {j \in 1..Len(collected) : collected[j] = NoResult}
    IN [collected EXCEPT ![Min(free)] = record]

StoreResult(collected, k, record) == [collected EXCEPT ![k] = record]

\* the search loop has collected the numbers of all result pages
SearchMergedPrs ==
    /\ pc = "search"
    /\ \E found \in SearchResults :
        /\ allPrNumbers' = found
        /\ pc' = IF Len(found) = 0 THEN "sources" ELSE "batch"
    /\ UNCHANGED <<unitVars, startCell, prNumber, prBody, members, batchI, pending, batchResults, results,
                   reordered, allSources, allItems, values, sheetVars, destCalls,
                   nextBody, postedBody, setFailed>>

SearchThrows ==
    /\ pc = "search"
    /\ Throw("search failed")
    /\ UNCHANGED <<unitVars, startCell, prNumber, prBody, members, fetchVars, allSources, allItems, values,
                   sheetVars, destCalls, nextBody, postedBody>>

\* batch.map(async (prNumber) => ...): every request of the batch is issued
StartBatch ==
    /\ pc = "batch"
    /\ LET batch == BatchSlice(allPrNumbers, batchI)
       IN /\ pending' = 1..Len(batch)
          /\ batchResults' = [k \in 1..Len(batch) |-> NoResult]
    /\ pc' = "inflight"
    /\ UNCHANGED <<unitVars, startCell, prNumber, prBody, members, allPrNumbers, batchI, results, reordered,
                   allSources, allItems, values, sheetVars, destCalls, nextBody,
                   postedBody, setFailed>>

\* one pulls.get of the batch answers, in any order
CompleteRequest ==
    /\ pc = "inflight"
    /\ \E k \in pending :
        /\ batchResults' = StoreResult(batchResults, k, PrRecord(allPrNumbers[batchI + k]))
        /\ pending' = pending \ {k}
        /\ reordered' = (reordered \/ \E j \in pending : j < k)
    /\ UNCHANGED <<unitVars, startCell, pc, prNumber, prBody, members, allPrNumbers, batchI, results,
                   allSources, allItems, values, sheetVars, destCalls, nextBody,
                   postedBody, setFailed>>

\* one pulls.get of the batch rejects: Promise.all rejects, run catches
RejectRequest ==
    /\ pc = "inflight"
    /\ pending # {}
    /\ Throw("pulls.get failed")
    /\ UNCHANGED <<unitVars, startCell, prNumber, prBody, members, fetchVars, allSources, allItems, values,
                   sheetVars, destCalls, nextBody, postedBody>>

\* await Promise.all(...) resumes: results.push(...batchResults); i += 10
ResolveBatch ==
    /\ pc = "inflight"
    /\ pending = {}
    /\ results' = results \o batchResults
    /\ batchI' = batchI + PARALLEL_BATCH_SIZE
    /\ pc' = IF batchI + PARALLEL_BATCH_SIZE < Len(allPrNumbers) THEN "batch" ELSE "sources"
    /\ UNCHANGED <<unitVars, startCell, prNumber, prBody, members, allPrNumbers, pending, batchResults,
                   reordered, allSources, allItems, values, sheetVars, destCalls,
                   nextBody, postedBody, setFailed>>

(***************************************************************************)
(* run: sources, parsing, layout                                           *)
(***************************************************************************)
\* for (const source of mergedPrs) if (!seen.has(number)) { seen.add; push }
DedupeSources_KeepAll(sources, seen) == sources

RECURSIVE DedupeSources(_, _)
DedupeSources(sources, seen) ==
    IF sources = <<>> THEN <<>>
    ELSE IF Head(sources).number \in seen
         THEN DedupeSources(Tail(sources), seen)
    ELSE <<Head(sources)>> \o DedupeSources(Tail(sources), seen \cup {Head(sources).number})

Numbers(sources) == [k \in 1..Len(sources) |-> sources[k].number]

NumberSet(sources) == {sources[k].number : k \in 1..Len(sources)}

\* if (!seen.has(currentPrSource.number)) allSources.push(currentPrSource)
AddCurrent_Always(sources, current) == Append(sources, current)

AddCurrent(sources, current) ==
    IF current.number \in NumberSet(sources) THEN sources ELSE Append(sources, current)

currentPrSource ==
    [number |-> prNumber, body |-> prBody, author |-> "carol", url |-> PrUrl(prNumber),
     mergedAt |-> "undefined"]

BuildSources ==
    /\ pc = "sources"
    /\ allSources' = AddCurrent(DedupeSources(results, {}), currentPrSource)
    /\ pc' = "parse"
    /\ UNCHANGED <<unitVars, startCell, prNumber, prBody, members, fetchVars, allItems, values, sheetVars,
                   destCalls, nextBody, postedBody, setFailed>>

\* for (const source of allSources) allItems.push(...parseChecklistBlock(...))
RECURSIVE ParseAll(_)
ParseAll(sources) ==
    IF sources = <<>> THEN <<>>
    ELSE parseChecklistBlock(Head(sources).body, checklistStartMarker, checklistEndMarker,
                             Head(sources).url, Head(sources).author)
         \o ParseAll(Tail(sources))

ParseSources ==
    /\ pc = "parse"
    /\ allItems' = ParseAll(allSources)
    /\ pc' = "layout"
    /\ UNCHANGED <<unitVars, startCell, prNumber, prBody, members, fetchVars, allSources, values, sheetVars,
                   destCalls, nextBody, postedBody, setFailed>>

(***************************************************************************)
(* columnToLetter, buildSideBySideRows                                     *)
(***************************************************************************)
Letters == <<"A", "B", "C", "D", "E", "F", "G", "H", "I", "J", "K", "L", "M",
             "N", "O", "P", "Q", "R", "S", "T", "U", "V", "W", "X", "Y", "Z">>

\* while (temp >= 0) { letter = chr(temp % 26 + 65) + letter; temp = floor(temp / 26) - 1 }
RECURSIVE ColumnLoop(_, _)
ColumnLoop(temp, letter) ==
    IF temp < 0 THEN letter
    ELSE ColumnLoop((temp \div 26) - 1, <<Letters[(temp % 26) + 1]>> \o letter)

columnToLetter(column) == ColumnLoop(column, <<>>)

\* cell values: a string, a boolean, a PR url, a note, a formula
TextCell(s) == [t |-> "text", v |-> s]

BoolCell(b) == [t |-> "bool", v |-> b]

UrlCell(u) == [t |-> "url", v |-> u]

NoteCell(n) == [t |-> "note", v |-> n]

\* =IF(COUNTIF(<col><from>:<col><to>,TRUE)=<equals>,"Done","")
FormulaCell(col, from, to, equals) ==
    [t |-> "formula", col |-> col, from |-> from, to |-> to, equals |-> equals]

dataStartRow == 3

buildSideBySideRows(items, roster) ==
    LET longest == Len(items)
        dataEndRow == dataStartRow + longest - 1
        memberNameRow ==
            Concat([m \in 1..Len(roster) |->
                <<TextCell(roster[m]),
                  IF longest > 0
                  THEN FormulaCell(columnToLetter((m - 1) * 4), dataStartRow, dataEndRow, longest)
                  ELSE TextCell(""),
                  TextCell(""), TextCell("")>>])
        headerRow ==
            Concat([m \in 1..Len(roster) |->
                <<TextCell("check"), TextCell("PR"), TextCell("Owner"), TextCell("Description")>>])
        dataRow(i) ==
            Concat([m \in 1..Len(roster) |->
                <<BoolCell(FALSE), UrlCell(items[i].prUrl), TextCell(items[i].author),
                  NoteCell(items[i].note)>>])
    IN <<memberNameRow, headerRow>> \o [i \in 1..longest |-> dataRow(i)]

\* if (allItems.length === 0) return
IsEmptyAggregate_Never(items) == FALSE

IsEmptyAggregate(items) == Len(items) = 0

\* "No checklist items found, skipping"
StopEmpty ==
    /\ pc = "layout"
    /\ IsEmptyAggregate(allItems)
    /\ pc' = "done"
    /\ UNCHANGED <<unitVars, startCell, prNumber, prBody, members, fetchVars, allSources, allItems, values,
                   sheetVars, destCalls, nextBody, postedBody, setFailed>>

\* core.getInput("sheet-range"): nothing, a cell, or a tab name, "!" and
\* possibly a cell
SheetRanges == { <<>>, <<"B5">>, <<"Tab", "!", "B5">>, <<"Tab", "!">>, <<"Tab", "!", "A1">> }

\* const sheetRange = core.getInput("sheet-range") || "A1";
\* sheetRange.includes("!") ? sheetRange.split("!")[1] || "A1" : sheetRange
StartCellOf(input) ==
    LET sheetRange == IF input = <<>> THEN <<"A1">> ELSE input
    IN IF \E k \in 1..Len(sheetRange) : sheetRange[k] = "!"
       THEN (IF Len(sheetRange) >= 3 THEN sheetRange[3] ELSE "A1")
       ELSE sheetRange[1]

\* the row and column index, from 0, of a cell named in A1 notation
CellCoords(cell) == IF cell = "B5" THEN <<4, 1>> ELSE <<0, 0>>

\* const values = buildSideBySideRows(allItems, members); sheet-id and
\* google-service-account-key are supplied; the start cell is read
BuildGrid ==
    /\ pc = "layout"
    /\ ~IsEmptyAggregate(allItems)
    /\ values' = buildSideBySideRows(allItems, members)
    /\ \E sheetRange \in SheetRanges : startCell' = CellCoords(StartCellOf(sheetRange))
    /\ pc' = "auth"
    /\ UNCHANGED <<unitVars, prNumber, prBody, members, fetchVars, allSources, allItems,
                   sheetVars, destCalls, nextBody, postedBody, setFailed>>

\* core.getInput(name, { required: true }) throws when the input is missing
RequiredInputMissing ==
    /\ pc = "layout"
    /\ ~IsEmptyAggregate(allItems)
    /\ values' = buildSideBySideRows(allItems, members)
    /\ Throw("Input required and not supplied: sheet-id")
    /\ UNCHANGED <<unitVars, startCell, prNumber, prBody, members, fetchVars, allSources, allItems,
                   sheetVars, destCalls, nextBody, postedBody>>

(***************************************************************************)
(* appendToSheet                                                           *)
(***************************************************************************)
\* A tab title is its suffix number: 1 is the date title, n >= 2 is "date-n".
\* let suffix = 1; while (existingTitles.includes(sheetTitle)) { suffix += 1; ... }
TitleLoop_IfNotWhile(existingTitles, suffix) ==
    IF suffix \in existingTitles THEN suffix + 1 ELSE suffix

RECURSIVE TitleLoop(_, _)
TitleLoop(existingTitles, suffix) ==
    IF suffix \in existingTitles THEN TitleLoop(existingTitles, suffix + 1) ELSE suffix

ChooseTitle(existingTitles) == TitleLoop(existingTitles, 1)

OldTab(title) ==
    [title |-> title, byRun |-> FALSE, written |-> TRUE, styled |-> TRUE, grid |-> <<>>,
     origin |-> <<>>]

NewTab(title) ==
    [title |-> title, byRun |-> TRUE, written |-> FALSE, styled |-> FALSE, grid |-> <<>>,
     origin |-> <<>>]

\* const client = await createAuthClient(authConfig)
Authenticate ==
    /\ pc = "auth"
    /\ pc' = "getsheet"
    /\ UNCHANGED <<unitVars, startCell, prNumber, prBody, members, fetchVars, allSources, allItems, values,
                   sheetVars, destCalls, nextBody, postedBody, setFailed>>

AuthenticateThrows ==
    /\ pc = "auth"
    /\ Throw("authentication failed")
    /\ UNCHANGED <<unitVars, startCell, prNumber, prBody, members, fetchVars, allSources, allItems, values,
                   sheetVars, destCalls, nextBody, postedBody>>

\* spreadsheets.get answers with the tabs the spreadsheet holds (they are not
\* known to the run before); the title loop runs on their titles
GetSpreadsheet ==
    /\ pc = "getsheet"
    /\ \E existingTitles \in SUBSET (1..MaxTabs) :
        /\ tabs' = {OldTab(n) : n \in existingTitles}
        /\ sheetTitle' = ChooseTitle(existingTitles)
    /\ destCalls' = Append(destCalls, "spreadsheets.get")
    /\ pc' = "addsheet"
    /\ UNCHANGED <<unitVars, startCell, prNumber, prBody, members, fetchVars, allSources, allItems, values,
                   createdSheetId, appendReturned, requests, nextBody, postedBody, setFailed>>

GetSpreadsheetThrows ==
    /\ pc = "getsheet"
    /\ destCalls' = Append(destCalls, "spreadsheets.get")
    /\ Throw("spreadsheets.get failed")
    /\ UNCHANGED <<unitVars, startCell, prNumber, prBody, members, fetchVars, allSources, allItems, values,
                   sheetVars, nextBody, postedBody>>

\* batchUpdate({ addSheet: { properties: { title: sheetTitle } } })
AddSheet ==
    /\ pc = "addsheet"
    /\ tabs' = tabs \cup {NewTab(sheetTitle)}
    /\ createdSheetId' \in SheetIds
    /\ destCalls' = Append(destCalls, "addSheet")
    /\ pc' = "write"
    /\ UNCHANGED <<unitVars, startCell, prNumber, prBody, members, fetchVars, allSources, allItems, values,
                   sheetTitle, appendReturned, requests, nextBody, postedBody, setFailed>>

AddSheetThrows ==
    /\ pc = "addsheet"
    /\ destCalls' = Append(destCalls, "addSheet")
    /\ Throw("addSheet failed")
    /\ UNCHANGED <<unitVars, startCell, prNumber, prBody, members, fetchVars, allSources, allItems, values,
                   sheetVars, nextBody, postedBody>>

\* values.update({ range: `${sheetTitle}!${rangeStart}`, requestBody: { values } })
WriteValues ==
    /\ pc = "write"
    /\ tabs' = (tabs \ {NewTab(sheetTitle)})
                 \cup {[NewTab(sheetTitle) EXCEPT !.written = TRUE, !.grid = values,
                                                 !.origin = startCell]}
    /\ destCalls' = Append(destCalls, "values.update")
    /\ pc' = "format"
    /\ UNCHANGED <<unitVars, startCell, prNumber, prBody, members, fetchVars, allSources, allItems, values,
                   sheetTitle, createdSheetId, appendReturned, requests, nextBody, postedBody,
                   setFailed>>

\* the rejection of values.update is swallowed and run goes on to the link
WriteValuesThrows_Swallowed ==
    /\ pc = "write"
    /\ destCalls' = Append(destCalls, "values.update")
    /\ pc' = "link"
    /\ UNCHANGED <<unitVars, startCell, prNumber, prBody, members, fetchVars, allSources,
                   allItems, values, sheetVars, nextBody, postedBody, setFailed>>

WriteValuesThrows ==
    /\ pc = "write"
    /\ destCalls' = Append(destCalls, "values.update")
    /\ Throw("values.update failed")
    /\ UNCHANGED <<unitVars, startCell, prNumber, prBody, members, fetchVars, allSources, allItems, values,
                   sheetVars, nextBody, postedBody>>

(***************************************************************************)
(* buildFormattingRequests                                                 *)
(***************************************************************************)
GridRange(sheetId, r0, r1, c0, c1) ==
    [sheetId |-> sheetId, startRowIndex |-> r0, endRowIndex |-> r1,
     startColumnIndex |-> c0, endColumnIndex |-> c1]

buildFreezeRowsRequest(sheetId) ==
    [kind |-> "updateSheetProperties", sheetId |-> sheetId, frozenRowCount |-> 2]

buildMemberHeaderRequest(sheetId, startCol) ==
    [kind |-> "repeatCell", part |-> "memberHeader",
     range |-> GridRange(sheetId, 0, 1, startCol, startCol + 4)]

\* a rule whose range ends one row below the data rows
buildCompletionConditionalFormat_OneRowMore(sheetId, startCol, dataRowCount) ==
    [kind |-> "addConditionalFormatRule",
     range |-> GridRange(sheetId, 0, 1, startCol, startCol + 4),
     condition |-> [t |-> "countif", col |-> columnToLetter(startCol), from |-> 3,
                    to |-> 3 + dataRowCount, equals |-> dataRowCount]]

\* `=COUNTIF(${checkboxCol}${dataStartRow}:${checkboxCol}${dataEndRow},TRUE)=${dataRowCount}`
buildCompletionConditionalFormat(sheetId, startCol, dataRowCount) ==
    LET checkboxCol == columnToLetter(startCol)
        firstRow == 3
        dataEndRow == firstRow + dataRowCount - 1
    IN [kind |-> "addConditionalFormatRule",
        range |-> GridRange(sheetId, 0, 1, startCol, startCol + 4),
        condition |-> [t |-> "countif", col |-> checkboxCol, from |-> firstRow,
                       to |-> dataEndRow, equals |-> dataRowCount]]

buildColumnHeaderRequest(sheetId, totalColumns) ==
    [kind |-> "repeatCell", part |-> "columnHeader",
     range |-> GridRange(sheetId, 1, 2, 0, totalColumns)]

buildDataRowsAlignmentRequest(sheetId, totalRows, totalColumns) ==
    [kind |-> "repeatCell", part |-> "dataRows",
     range |-> GridRange(sheetId, 2, totalRows, 0, totalColumns)]

buildCheckboxRequest_NextColumn(sheetId, dataRowCount, columnIndex) ==
    [kind |-> "setDataValidation",
     range |-> GridRange(sheetId, 2, 2 + dataRowCount, columnIndex + 1, columnIndex + 2)]

buildCheckboxRequest(sheetId, dataRowCount, columnIndex) ==
    [kind |-> "setDataValidation",
     range |-> GridRange(sheetId, 2, 2 + dataRowCount, columnIndex, columnIndex + 1)]

buildCheckboxAlignmentRequest(sheetId, totalRows, columnIndex) ==
    [kind |-> "repeatCell", part |-> "checkbox",
     range |-> GridRange(sheetId, 2, totalRows, columnIndex, columnIndex + 1)]

buildBorderRequest(sheetId, totalRows, startCol) ==
    [kind |-> "updateBorders",
     range |-> GridRange(sheetId, 0, totalRows, startCol, startCol + 4)]

\* widths.map((pixelSize, index) => ...): one request per column of the block
buildColumnWidthRequests(sheetId, startCol) ==
    [index \in 1..4 |->
        [kind |-> "updateDimensionProperties", dimension |-> "COLUMNS", sheetId |-> sheetId,
         startIndex |-> startCol + index - 1, endIndex |-> startCol + index]]

buildHeaderRowHeightRequest(sheetId) ==
    [kind |-> "updateDimensionProperties", dimension |-> "ROWS", sheetId |-> sheetId,
     startIndex |-> 0, endIndex |-> 2]

buildFormattingRequests(sheetId, grid, memberCount) ==
    LET totalColumns == memberCount * 4
        totalRows == Len(grid)
        dataRowCount == Max({0, Len(grid) - 2})
        memberIndexes == [m \in 1..memberCount |-> m - 1]
        headers ==
            Concat([m \in 1..memberCount |->
                <<buildMemberHeaderRequest(sheetId, memberIndexes[m] * 4)>>
                \o (IF dataRowCount > 0
                    THEN <<buildCompletionConditionalFormat(sheetId, memberIndexes[m] * 4,
                                                            dataRowCount)>>
                    ELSE <<>>)])
        checkboxes ==
            Concat([m \in 1..memberCount |->
                <<buildCheckboxRequest(sheetId, dataRowCount, memberIndexes[m] * 4),
                  buildCheckboxAlignmentRequest(sheetId, totalRows, memberIndexes[m] * 4)>>])
        dataRows ==
            IF dataRowCount > 0
            THEN <<buildDataRowsAlignmentRequest(sheetId, totalRows, totalColumns)>> \o checkboxes
            ELSE <<>>
        borders ==
            [m \in 1..memberCount |-> buildBorderRequest(sheetId, totalRows, memberIndexes[m] * 4)]
        widths ==
            Concat([m \in 1..memberCount |->
                buildColumnWidthRequests(sheetId, memberIndexes[m] * 4)])
    IN <<buildFreezeRowsRequest(sheetId)>> \o headers
       \o <<buildColumnHeaderRequest(sheetId, totalColumns)>> \o dataRows
       \o borders \o widths \o <<buildHeaderRowHeightRequest(sheetId)>>

\* if (createdSheetId != null && values.length > 0)
WantsFormatting == createdSheetId # "undefined" /\ Len(values) > 0

\* batchUpdate({ requests }) with the formatting requests, then return
ApplyFormatting ==
    /\ pc = "format"
    /\ WantsFormatting
    /\ requests' = buildFormattingRequests(createdSheetId, values, Len(members))
    /\ tabs' = {IF tab.byRun THEN [tab EXCEPT !.styled = TRUE] ELSE tab : tab \in tabs}
    /\ destCalls' = Append(destCalls, "batchUpdate.format")
    /\ appendReturned' = TRUE
    /\ pc' = "link"
    /\ UNCHANGED <<unitVars, startCell, prNumber, prBody, members, fetchVars, allSources, allItems, values,
                   sheetTitle, createdSheetId, nextBody, postedBody, setFailed>>

ApplyFormattingThrows ==
    /\ pc = "format"
    /\ WantsFormatting
    /\ destCalls' = Append(destCalls, "batchUpdate.format")
    /\ Throw("batchUpdate failed")
    /\ UNCHANGED <<unitVars, startCell, prNumber, prBody, members, fetchVars, allSources, allItems, values,
                   sheetVars, nextBody, postedBody>>

\* no gid in the addSheet reply: return without formatting
SkipFormatting ==
    /\ pc = "format"
    /\ ~WantsFormatting
    /\ appendReturned' = TRUE
    /\ pc' = "link"
    /\ UNCHANGED <<unitVars, startCell, prNumber, prBody, members, fetchVars, allSources, allItems, values,
                   tabs, sheetTitle, createdSheetId, requests, destCalls, nextBody,
                   postedBody, setFailed>>

(***************************************************************************)
(* run: link back to the pull request                                      *)
(***************************************************************************)
\* createdSheetId !== undefined ? `${sheetUrlBase}/edit#gid=${createdSheetId}` : sheetUrlBase
SheetUrl(id) == IF id # "undefined" THEN <<"U", "#", id>> ELSE <<"U">>

\* append-pr-link is not "true"
LinkDisabled ==
    /\ pc = "link"
    /\ pc' = "done"
    /\ UNCHANGED <<unitVars, startCell, prNumber, prBody, members, fetchVars, allSources, allItems, values,
                   sheetVars, destCalls, nextBody, postedBody, setFailed>>

\* const nextBody = upsertLinkSection(body, sheetUrl, sheetLinkText);
\* if (nextBody !== body) await pulls.update(...) else "no update needed"
UpsertLink_AlwaysUpdate ==
    /\ pc = "link"
    /\ \E sheetLinkText \in LinkTexts :
        nextBody' = upsertLinkSection(prBody, SheetUrl(createdSheetId), sheetLinkText)
    /\ pc' = "update"
    /\ UNCHANGED <<unitVars, startCell, prNumber, prBody, members, fetchVars, allSources, allItems, values,
                   sheetVars, destCalls, postedBody, setFailed>>

UpsertLink ==
    /\ pc = "link"
    /\ \E sheetLinkText \in LinkTexts :
        /\ nextBody' = upsertLinkSection(prBody, SheetUrl(createdSheetId), sheetLinkText)
        /\ pc' = IF nextBody' # prBody THEN "update" ELSE "done"
    /\ UNCHANGED <<unitVars, startCell, prNumber, prBody, members, fetchVars, allSources, allItems, values,
                   sheetVars, destCalls, postedBody, setFailed>>

\* octokit.rest.pulls.update({ pull_number, body: nextBody })
UpdatePrBody ==
    /\ pc = "update"
    /\ postedBody' = nextBody
    /\ destCalls' = Append(destCalls, "pulls.update")
    /\ pc' = "done"
    /\ UNCHANGED <<unitVars, startCell, prNumber, prBody, members, fetchVars, allSources, allItems, values,
                   sheetVars, nextBody, setFailed>>

UpdatePrBodyThrows ==
    /\ pc = "update"
    /\ destCalls' = Append(destCalls, "pulls.update")
    /\ Throw("pulls.update failed")
    /\ UNCHANGED <<unitVars, startCell, prNumber, prBody, members, fetchVars, allSources, allItems, values,
                   sheetVars, nextBody, postedBody>>

RunInit ==
    /\ pc = "start"
    /\ prNumber \in CurrentNumbers
    /\ prBody \in CurrentBodies
    /\ members = <<>>
    /\ allPrNumbers = <<>>
    /\ batchI = 0
    /\ pending = {}
    /\ batchResults = <<>>
    /\ results = <<>>
    /\ reordered = FALSE
    /\ allSources = <<>>
    /\ allItems = <<>>
    /\ values = <<>>
    /\ startCell = <<>>
    /\ tabs = {}
    /\ sheetTitle = 0
    /\ createdSheetId = "undefined"
    /\ appendReturned = FALSE
    /\ requests = <<>>
    /\ destCalls = <<>>
    /\ nextBody = <<>>
    /\ postedBody = <<>>
    /\ setFailed = <<>>

RunIdle ==
    /\ pc = "idle"
    /\ prNumber = 0
    /\ prBody = <<>>
    /\ members = <<>>
    /\ allPrNumbers = <<>>
    /\ batchI = 0
    /\ pending = {}
    /\ batchResults = <<>>
    /\ results = <<>>
    /\ reordered = FALSE
    /\ allSources = <<>>
    /\ allItems = <<>>
    /\ values = <<>>
    /\ startCell = <<>>
    /\ tabs = {}
    /\ sheetTitle = 0
    /\ createdSheetId = "undefined"
    /\ appendReturned = FALSE
    /\ requests = <<>>
    /\ destCalls = <<>>
    /\ nextBody = <<>>
    /\ postedBody = <<>>
    /\ setFailed = <<>>

RunNext ==
    \/ SkipRun
    \/ LoadMembers
    \/ CreateClient
    \/ CreateClientThrows
    \/ SearchMergedPrs
    \/ SearchThrows
    \/ StartBatch
    \/ CompleteRequest
    \/ RejectRequest
    \/ ResolveBatch
    \/ BuildSources
    \/ ParseSources
    \/ StopEmpty
    \/ BuildGrid
    \/ RequiredInputMissing
    \/ Authenticate
    \/ AuthenticateThrows
    \/ GetSpreadsheet
    \/ GetSpreadsheetThrows
    \/ AddSheet
    \/ AddSheetThrows
    \/ WriteValues
    \/ WriteValuesThrows
    \/ ApplyFormatting
    \/ ApplyFormattingThrows
    \/ SkipFormatting
    \/ LinkDisabled
    \/ UpsertLink
    \/ UpdatePrBody
    \/ UpdatePrBodyThrows

(***************************************************************************)
(* columnToLetter, one loop iteration at a time                            *)
(***************************************************************************)
\* letter = String.fromCharCode((temp % 26) + 65) + letter;
\* temp = Math.floor(temp / 26) - 1
ColumnIter_PlainBase26(temp, letter) ==
    [temp |-> IF temp < 26 THEN 0 - 1 ELSE temp \div 26,
     letter |-> <<Letters[(temp % 26) + 1]>> \o letter]

ColumnIter(temp, letter) ==
    [temp |-> (temp \div 26) - 1,
     letter |-> <<Letters[(temp % 26) + 1]>> \o letter]

ColumnInit ==
    /\ ccolumn \in 0..MaxColumn
    /\ ctemp = ccolumn
    /\ cletter = <<>>
    /\ cpc = "loop"

\* while (temp >= 0) { ... }
ColumnStep ==
    /\ cpc = "loop"
    /\ ctemp >= 0
    /\ ctemp' = ColumnIter(ctemp, cletter).temp
    /\ cletter' = ColumnIter(ctemp, cletter).letter
    /\ UNCHANGED <<ccolumn, cpc, parseVars, upsertVars, layoutVars, reviewVars, raceVars, runVars>>

\* return letter
ColumnReturn ==
    /\ cpc = "loop"
    /\ ctemp < 0
    /\ cpc' = "returned"
    /\ UNCHANGED <<ccolumn, ctemp, cletter, parseVars, upsertVars, layoutVars, reviewVars, raceVars, runVars>>

ColumnIdle ==
    /\ ccolumn = 0
    /\ ctemp = 0
    /\ cletter = <<>>
    /\ cpc = "idle"

(***************************************************************************)
(* buildSideBySideRows of the per-reviewer variant                         *)
(***************************************************************************)
\* `${doneCount}/${total || 0}...`
RatioCell(doneCount, total) == [t |-> "ratio", done |-> doneCount, total |-> total]

\* checklist.reviewer.displayName || checklist.reviewer.id
ReviewerCell(reviewer) ==
    [t |-> "reviewer",
     v |-> IF reviewer.displayName # <<>> THEN reviewer.displayName ELSE reviewer.id]

\* a count of every entry, done or not
CountDone_All(items) == Len(items)

\* checklist.items.filter((item) => item.done).length
CountDone(items) == Cardinality({i \in 1..Len(items) : items[i].done})

\* const item = checklist.items[rowIndex]; if (item) row.push(done, prUrl,
\* author, note) else row.push("", "", "", "")
\* a row that repeats the first entry
RowCells_FirstEntry(items, rowIndex) ==
    IF rowIndex <= Len(items)
    THEN <<BoolCell(items[1].done), UrlCell(items[1].prUrl),
           TextCell(items[1].author), NoteCell(items[1].note)>>
    ELSE <<TextCell(""), TextCell(""), TextCell(""), TextCell("")>>

RowCells_SkipMissing(items, rowIndex) ==
    IF rowIndex <= Len(items)
    THEN <<BoolCell(items[rowIndex].done), UrlCell(items[rowIndex].prUrl),
           TextCell(items[rowIndex].author), NoteCell(items[rowIndex].note)>>
    ELSE <<>>

RowCells(items, rowIndex) ==
    IF rowIndex <= Len(items)
    THEN <<BoolCell(items[rowIndex].done), UrlCell(items[rowIndex].prUrl),
           TextCell(items[rowIndex].author), NoteCell(items[rowIndex].note)>>
    ELSE <<TextCell(""), TextCell(""), TextCell(""), TextCell("")>>

buildSideBySideRowsByReviewer(parsed) ==
    LET longest == Max({Len(parsed[k].items) : k \in 1..Len(parsed)} \cup {0})
        headerRow1 ==
            Concat([k \in 1..Len(parsed) |->
                <<TextCell("checklist"), TextCell(""), TextCell(""),
                  RatioCell(CountDone(parsed[k].items), Len(parsed[k].items))>>])
        headerRow2 ==
            Concat([k \in 1..Len(parsed) |->
                <<TextCell("check"), TextCell("PR"), TextCell("Owner"),
                  ReviewerCell(parsed[k].reviewer)>>])
        row(rowIndex) ==
            Concat([k \in 1..Len(parsed) |-> RowCells(parsed[k].items, rowIndex)])
    IN <<headerRow1, headerRow2>> \o [rowIndex \in 1..longest |-> row(rowIndex)]

(***************************************************************************)
(* buildSideBySideRows applied to rosters and lists of every size          *)
(***************************************************************************)
Names == <<"Alice", "Bob", "Carol", "Dave", "Erin", "Frank">>

SharedItems(n) ==
    [i \in 1..n |-> [note |-> <<"n", i>>, prUrl |-> PrUrl(i), author |-> "alice"]]

ReviewerItems(n) ==
    [i \in 1..n |-> [done |-> (i % 2 = 0), note |-> <<"n", i>>, prUrl |-> PrUrl(i),
                     author |-> "alice"]]

LayoutReviewer(k) == [id |-> <<"r", k>>, displayName |-> IF k % 2 = 0 THEN <<>> ELSE <<"R", k>>]

ParsedLists ==
    UNION { { [k \in 1..n |-> [reviewer |-> LayoutReviewer(k), items |-> ReviewerItems(lens[k])]]
              : lens \in [1..n -> 0..MaxItems] }
            : n \in 1..MaxRoster }

LayoutInit ==
    /\ litems \in {SharedItems(n) : n \in 0..MaxItems}
    /\ lmembers \in {SubSeq(Names, 1, k) : k \in 1..MaxRoster}
    /\ lparsed \in ParsedLists
    /\ lvalues = <<>>
    /\ lpc = "ready"

\* buildSideBySideRows(allItems, members)
LayoutShared ==
    /\ lpc = "ready"
    /\ lvalues' = buildSideBySideRows(litems, lmembers)
    /\ lpc' = "shared"
    /\ UNCHANGED <<litems, lmembers, lparsed, parseVars, upsertVars, columnVars, reviewVars,
                   raceVars, runVars>>

\* buildSideBySideRows(parsedChecklists)
LayoutPerReviewer ==
    /\ lpc = "ready"
    /\ lvalues' = buildSideBySideRowsByReviewer(lparsed)
    /\ lpc' = "perReviewer"
    /\ UNCHANGED <<litems, lmembers, lparsed, parseVars, upsertVars, columnVars, reviewVars,
                   raceVars, runVars>>

LayoutIdle ==
    /\ litems = <<>>
    /\ lmembers = <<>>
    /\ lparsed = <<>>
    /\ lvalues = <<>>
    /\ lpc = "idle"

(***************************************************************************)
(* parseChecklistBlock of the per-reviewer variant                         *)
(***************************************************************************)
\* The backquote character is written "~" in the model; the fence is three of them.
Fence == <<"~", "~", "~">>

\* core.getInput("checklist-tag-prefix") || "checklist"
checklistTagPrefix == <<"c">>

\* `${checklistTagPrefix}-${reviewer.id}`
ReviewerTag(reviewer) == checklistTagPrefix \o <<"-">> \o reviewer.id

\* new RegExp("```" + tag + "\\n([\\s\\S]*?)```", "m"): the tag goes into the
\* source as it is.  Of the characters the reviewer ids hold, "(" opens a
\* group that is never closed, and the constructor throws a SyntaxError.
FenceCompiles(tag) == \A k \in 1..Len(tag) : tag[k] # "("

FencePattern(tag) == CompilePattern(Fence \o tag) \o <<[kind |-> "lit", ch |-> NL]>>

\* body.match(fence): the leftmost opening that a later "```" closes; the
\* group is lazy and stops at the first "```".
FenceMatch(body, tag) ==
    LET open == FencePattern(tag)
        starts == {i \in 1..Len(body) :
                      PatAt(body, open, i) /\ IndexOfFrom(body, Fence, i + Len(open)) # 0}
    IN IF starts = {}
       THEN [found |-> FALSE, group |-> <<>>, from |-> 0, to |-> 0]
       ELSE LET i == Min(starts)
                j == IndexOfFrom(body, Fence, i + Len(open))
            IN [found |-> TRUE, group |-> SubSeq(body, i + Len(open), j - 1),
                from |-> i, to |-> j + Len(Fence) - 1]

\* line.match(/^- \[( |x)\]\s*(.+)$/i) on a trimmed, non-empty line
\* a bracket that accepts any one character
CheckboxMatches_AnyMark(line) ==
    /\ Len(line) >= 6
    /\ line[1] = "-"
    /\ line[2] = " "
    /\ line[3] = "["
    /\ line[5] = "]"

CheckboxMatches_CaseSensitive(line) ==
    /\ Len(line) >= 6
    /\ line[1] = "-"
    /\ line[2] = " "
    /\ line[3] = "["
    /\ line[4] \in {" ", "x"}
    /\ line[5] = "]"

CheckboxMatches(line) ==
    /\ Len(line) >= 6
    /\ line[1] = "-"
    /\ line[2] = " "
    /\ line[3] = "["
    /\ line[4] \in {" ", "x", "X"}
    /\ line[5] = "]"

\* the group (.+): what follows the whitespace \s* keeps; \s* is greedy and
\* leaves one character to the group
CheckboxNote(line) ==
    SubSeq(line, 6 + Min({WsRun(line, 6), Len(line) - 6}), Len(line))

\* checkbox.toLowerCase()
ToLowerCase(c) == IF c = "X" THEN "x" ELSE c

RECURSIVE CheckboxItems(_, _, _)
CheckboxItems(lines, prUrl, author) ==
    IF lines = <<>> THEN <<>>
    ELSE IF ~CheckboxMatches(Head(lines))
         THEN CheckboxItems(Tail(lines), prUrl, author)
    ELSE <<[done |-> ToLowerCase(Head(lines)[4]) = "x",
            note |-> Trim(CheckboxNote(Head(lines))),
            prUrl |-> prUrl, author |-> author]>>
         \o CheckboxItems(Tail(lines), prUrl, author)

parseChecklistBlockByTag(body, tag, reviewer, prUrl, author) ==
    LET match == FenceMatch(body, tag)
    IN IF ~match.found
       THEN [reviewer |-> reviewer, items |-> <<>>]
       ELSE [reviewer |-> reviewer,
             items |-> CheckboxItems(NonBlankLines(match.group), prUrl, author)]

\* for (const source of allSources) aggregated.push(...parsed.items)
RECURSIVE AggregateFor(_, _)
AggregateFor(reviewer, sources) ==
    IF sources = <<>> THEN <<>>
    ELSE parseChecklistBlockByTag(Head(sources).body, ReviewerTag(reviewer), reviewer,
                                  Head(sources).url, Head(sources).author).items
         \o AggregateFor(reviewer, Tail(sources))

\* reviewers.map((reviewer) => ({ reviewer, items: aggregated }))
ParsedChecklists(reviewers, sources) ==
    [k \in 1..Len(reviewers) |->
        [reviewer |-> reviewers[k], items |-> AggregateFor(reviewers[k], sources)]]

(***************************************************************************)
(* Rosters and documents the per-reviewer variant is exercised on          *)
(***************************************************************************)
ReviewerA == [id |-> <<"a">>, displayName |-> <<"A">>]

ReviewerB == [id |-> <<"b">>, displayName |-> <<>>]

ReviewerDot == [id |-> <<".">>, displayName |-> <<>>]

ReviewerParen == [id |-> <<"(">>, displayName |-> <<>>]

ReviewerRosters ==
    { <<ReviewerA>>, <<ReviewerA, ReviewerB>>, <<ReviewerDot, ReviewerB>>, <<ReviewerParen>> }

OpenTag(reviewer) == ReviewerTag(reviewer) \o <<NL>>

RPieces ==
    { Fence, OpenTag(ReviewerA), OpenTag(ReviewerB),
      <<"-", " ", "[", " ", "]", " ", "u", NL>>,
      <<"-", " ", "[", "X", "]", " ", "v", NL>>,
      <<"-", " ", "[", "*", "]", " ", "w", NL>> }

RECURSIVE RBodies(_)
RBodies(n) ==
    IF n = 0 THEN { <<>> }
    ELSE LET shorter == RBodies(n - 1)
         IN shorter \cup { b \o q : b \in shorter, q \in RPieces }

\* a merged pull request with a block for each of two reviewers
TwoBlockBody ==
    Fence \o OpenTag(ReviewerA)
    \o <<"-", " ", "[", "x", "]", " ", "p", NL>> \o <<"-", " ", "z", NL>> \o Fence \o <<NL>>
    \o Fence \o OpenTag(ReviewerB)
    \o <<"-", " ", "[", " ", "]", "q", NL>>
    \o <<"-", " ", "[", "]", " ", "r", NL>>
    \o <<"-", " ", "[", "x", "x", "]", " ", "s", NL>>
    \o <<"-", " ", "[", "-", "]", " ", "t", NL>> \o Fence

\* what the search returned: nothing, or the pull request with two blocks
MergedResults ==
    { <<>>,
      <<[number |-> 2, body |-> TwoBlockBody, author |-> "bob", url |-> PrUrl(2)]>> }

ReviewInit ==
    /\ rreviewers \in ReviewerRosters
    /\ \E body \in RBodies(MaxRPieces), merged \in MergedResults :
        rsources = merged \o <<[number |-> 1, body |-> body, author |-> "alice",
                                url |-> PrUrl(1)]>>
    /\ rparsed = <<>>
    /\ rthrew = FALSE
    /\ rvalues = <<>>
    /\ rpc = "ready"

\* the reviewers.map(...) of run
ParseReviewers ==
    /\ rpc = "ready"
    /\ \A k \in 1..Len(rreviewers) : FenceCompiles(ReviewerTag(rreviewers[k]))
    /\ rparsed' = ParsedChecklists(rreviewers, rsources)
    /\ rpc' = "parsed"
    /\ UNCHANGED <<rreviewers, rsources, rthrew, rvalues, parseVars, upsertVars, columnVars,
                   layoutVars, raceVars, runVars>>

\* new RegExp throws inside parseChecklistBlock: run catches and fails
ParseReviewersThrows ==
    /\ rpc = "ready"
    /\ \E k \in 1..Len(rreviewers) : ~FenceCompiles(ReviewerTag(rreviewers[k]))
    /\ rthrew' = TRUE
    /\ rpc' = "done"
    /\ UNCHANGED <<rreviewers, rsources, rparsed, rvalues, parseVars, upsertVars, columnVars,
                   layoutVars, raceVars, runVars>>

\* if (parsedChecklists.every((c) => c.items.length === 0)) return
StopNoReviewerItems ==
    /\ rpc = "parsed"
    /\ \A k \in 1..Len(rparsed) : Len(rparsed[k].items) = 0
    /\ rpc' = "done"
    /\ UNCHANGED <<rreviewers, rsources, rparsed, rthrew, rvalues, parseVars, upsertVars,
                   columnVars, layoutVars, raceVars, runVars>>

\* const values = buildSideBySideRows(parsedChecklists)
BuildReviewerGrid ==
    /\ rpc = "parsed"
    /\ \E k \in 1..Len(rparsed) : Len(rparsed[k].items) > 0
    /\ rvalues' = buildSideBySideRowsByReviewer(rparsed)
    /\ rpc' = "laid"
    /\ UNCHANGED <<rreviewers, rsources, rparsed, rthrew, parseVars, upsertVars, columnVars,
                   layoutVars, raceVars, runVars>>

ReviewIdle ==
    /\ rreviewers = <<>>
    /\ rsources = <<>>
    /\ rparsed = <<>>
    /\ rthrew = FALSE
    /\ rvalues = <<>>
    /\ rpc = "idle"

(***************************************************************************)
(* appendToSheet of several runs on one spreadsheet                        *)
(***************************************************************************)
Runs == 1..MaxRuns

TitlesOf(sheets) == {tab.title : tab \in sheets}

RaceInit ==
    /\ \E existingTitles \in SUBSET (1..MaxTabs) :
        gtabs = {[title |-> n, by |-> 0, written |-> TRUE] : n \in existingTitles}
    /\ gtitle = [r \in Runs |-> 0]
    /\ gpc = [r \in Runs |-> "get"]

\* spreadsheets.get answers run r; the title loop runs on the titles read
RaceGet ==
    \E r \in Runs :
        /\ gpc[r] = "get"
        /\ gtitle' = [gtitle EXCEPT ![r] = ChooseTitle(TitlesOf(gtabs))]
        /\ gpc' = [gpc EXCEPT ![r] = "add"]
        /\ UNCHANGED <<gtabs, parseVars, upsertVars, columnVars, layoutVars, reviewVars, runVars>>

\* batchUpdate({ addSheet }) of run r, no tab has the title
RaceAdd ==
    \E r \in Runs :
        /\ gpc[r] = "add"
        /\ gtitle[r] \notin TitlesOf(gtabs)
        /\ gtabs' = gtabs \cup {[title |-> gtitle[r], by |-> r, written |-> FALSE]}
        /\ gpc' = [gpc EXCEPT ![r] = "write"]
        /\ UNCHANGED <<gtitle, parseVars, upsertVars, columnVars, layoutVars, reviewVars, runVars>>

\* batchUpdate({ addSheet }) of run r when a tab has the title by now and
\* the API refuses the request: appendToSheet rejects and run fails
RaceAddRefused ==
    \E r \in Runs :
        /\ gpc[r] = "add"
        /\ gtitle[r] \in TitlesOf(gtabs)
        /\ gpc' = [gpc EXCEPT ![r] = "failed"]
        /\ UNCHANGED <<gtabs, gtitle, parseVars, upsertVars, columnVars, layoutVars, reviewVars,
                       runVars>>

\* the same when the API accepts the request: a second tab of that title
RaceAddDuplicate ==
    \E r \in Runs :
        /\ gpc[r] = "add"
        /\ gtitle[r] \in TitlesOf(gtabs)
        /\ gtabs' = gtabs \cup {[title |-> gtitle[r], by |-> r, written |-> FALSE]}
        /\ gpc' = [gpc EXCEPT ![r] = "write"]
        /\ UNCHANGED <<gtitle, parseVars, upsertVars, columnVars, layoutVars, reviewVars, runVars>>

\* values.update({ range: `${sheetTitle}!${rangeStart}` }) of run r
RaceWrite ==
    \E r \in Runs :
        /\ gpc[r] = "write"
        /\ gtabs' = {IF tab.by = r THEN [tab EXCEPT !.written = TRUE] ELSE tab : tab \in gtabs}
        /\ gpc' = [gpc EXCEPT ![r] = "done"]
        /\ UNCHANGED <<gtitle, parseVars, upsertVars, columnVars, layoutVars, reviewVars, runVars>>

RaceIdle ==
    /\ gtabs = {}
    /\ gtitle = <<>>
    /\ gpc = <<>>

(***************************************************************************)
(* Specifications                                                          *)
(***************************************************************************)
Init == RunInit /\ ParseIdle /\ UpsertIdle /\ ColumnIdle /\ LayoutIdle /\ ReviewIdle /\ RaceIdle

Next == RunNext

Spec == Init /\ [][Next]_vars

InitParse == ParseInit /\ UpsertIdle /\ ColumnIdle /\ LayoutIdle /\ ReviewIdle /\ RunIdle /\ RaceIdle

NextParse == ParseCall

SpecParse == InitParse /\ [][NextParse]_vars

InitUpsert == UpsertInit /\ ParseIdle /\ ColumnIdle /\ LayoutIdle /\ ReviewIdle /\ RunIdle /\ RaceIdle

NextUpsert == UpsertApply

SpecUpsert == InitUpsert /\ [][NextUpsert]_vars

InitColumn == ColumnInit /\ ParseIdle /\ UpsertIdle /\ LayoutIdle /\ ReviewIdle /\ RunIdle /\ RaceIdle

NextColumn ==
    \/ ColumnStep
    \/ ColumnReturn

\* the loop is straight-line code of a running call: it keeps taking steps
SpecColumn == InitColumn /\ [][NextColumn]_vars /\ WF_vars(NextColumn)

InitLayout == LayoutInit /\ ParseIdle /\ UpsertIdle /\ ColumnIdle /\ ReviewIdle /\ RunIdle /\ RaceIdle

NextLayout ==
    \/ LayoutShared
    \/ LayoutPerReviewer

SpecLayout == InitLayout /\ [][NextLayout]_vars

InitReview == ReviewInit /\ ParseIdle /\ UpsertIdle /\ ColumnIdle /\ LayoutIdle /\ RunIdle /\ RaceIdle

NextReview ==
    \/ ParseReviewers
    \/ ParseReviewersThrows
    \/ StopNoReviewerItems
    \/ BuildReviewerGrid

SpecReview == InitReview /\ [][NextReview]_vars

InitRace ==
    RaceInit /\ ParseIdle /\ UpsertIdle /\ ColumnIdle /\ LayoutIdle /\ ReviewIdle /\ RunIdle

NextRace ==
    \/ RaceGet
    \/ RaceAdd
    \/ RaceAddRefused
    \/ RaceAddDuplicate
    \/ RaceWrite

SpecRace == InitRace /\ [][NextRace]_vars

(***************************************************************************)
(* Claims about parseChecklistBlock                                        *)
(***************************************************************************)
PStart == pmarkers[1]

PEnd == pmarkers[2]

PFirstStart == IndexOfFrom(pbody, PStart, 1)

PFirstEnd == IndexOfFrom(pbody, PEnd, 1)

PEndBeforeFirstStart == PFirstEnd # 0 /\ PFirstStart # 0 /\ PFirstEnd < PFirstStart

PNoEndAfterFirstStart ==
    PFirstStart # 0 /\ IndexOfFrom(pbody, PEnd, PFirstStart + Len(PStart)) = 0

PReturnedEmpty == presult.items = <<>> /\ ~presult.threw

\* C10 (as stated): a body with no start marker, or with an end marker before
\* the first start marker, gives an empty list and no exception.
C10_EmptyWhenEndBeforeStart ==
    (ppc = "parsed" /\ (PFirstStart = 0 \/ PEndBeforeFirstStart)) => PReturnedEmpty

\* C10 (amended): a body with no start marker, or with no end marker that
\* begins at or after the end of the first start marker, gives an empty list
\* and no exception.
C10_EmptyWhenNoEndAfterStart ==
    (ppc = "parsed" /\ (PFirstStart = 0 \/ PNoEndAfterFirstStart)) => PReturnedEmpty

\* An end marker, then the first start marker, then an item line and no
\* further end marker: parsed, and nothing returned.
C10_Witness ==
    /\ ppc = "parsed"
    /\ PEndBeforeFirstStart
    /\ PNoEndAfterFirstStart
    /\ IndexOfFrom(pbody, <<"-", " ", "a">>, PFirstStart + Len(PStart)) # 0
    /\ presult.items = <<>>

\* the span between the markers that the parser reads, <<>> when there is none
ExtractedSpan ==
    BlockMatch(pbody, CompilePattern(EscapeRegExp(PStart)),
                      CompilePattern(EscapeRegExp(PEnd))).group

\* a dash, at least one whitespace character, at least one further character
IsPlainItemLine(line) ==
    /\ Len(line) >= 3
    /\ line[1] = "-"
    /\ IsWs(line[2])
    /\ \E k \in 3..Len(line) : ~IsWs(line[k])

\* the trimmed lines of the span that have the form of a plain item
PlainItemLines ==
    SelectSeq([k \in 1..Len(SplitLines(ExtractedSpan)) |-> Trim(SplitLines(ExtractedSpan)[k])],
              IsPlainItemLine)

\* C12: in marker mode every trimmed line of the extracted span that is a
\* dash, whitespace and at least one more character gives exactly one entry,
\* in line order: its note is the trimmed remainder of the line, it has no
\* completion state, and it carries the url and the author of its document.
C12_PlainItemLinesParsed ==
    ppc = "parsed" =>
        /\ Len(presult.items) = Len(PlainItemLines)
        /\ \A k \in 1..Len(PlainItemLines) :
               /\ presult.items[k].note =
                      Trim(SubSeq(PlainItemLines[k], 2, Len(PlainItemLines[k])))
               /\ presult.items[k].prUrl = presult.origin.url
               /\ presult.items[k].author = presult.origin.author
               /\ DOMAIN presult.items[k] = {"note", "prUrl", "author"}

\* A span with the one line "- a- a" was parsed for the second document: one
\* entry, note "a- a".
C12_Witness ==
    /\ ppc = "parsed"
    /\ Len(PlainItemLines) = 1
    /\ presult.origin.author = "bob"
    /\ Len(presult.items) = 1
    /\ presult.items[1].note = <<"a", "-", " ", "a">>

\* the trimmed non-blank lines of the span, in the order of the document
SpanLines == NonBlankLines(ExtractedSpan)

\* how many of the first k lines of the span have the form of a plain item
ItemRank(k) == Cardinality({j \in 1..k : IsPlainItemLine(SpanLines[j])})

\* C21: a line of the span that is no item is skipped and does not stop the
\* reading: there is one entry per item line and no other, and the entry of
\* the item line at position k of the span is at its rank among the item
\* lines, whatever lines came before it.
C21_UnparsableLinesSkipped ==
    ppc = "parsed" =>
        /\ Len(presult.items) = ItemRank(Len(SpanLines))
        /\ \A k \in 1..Len(SpanLines) :
               IsPlainItemLine(SpanLines[k]) =>
                   presult.items[ItemRank(k)].note =
                       Trim(SubSeq(SpanLines[k], 2, Len(SpanLines[k])))

\* The span held a line of prose and after it an item line: the item line
\* gave the one entry returned.
C21_Witness ==
    /\ ppc = "parsed"
    /\ Len(SpanLines) = 2
    /\ ~IsPlainItemLine(SpanLines[1])
    /\ IsPlainItemLine(SpanLines[2])
    /\ Len(presult.items) = 1
    /\ presult.items[1].note = <<"a">>

\* where the text after the first start marker begins
PSpanStart == PFirstStart + Len(PStart)

\* the first end marker that begins at or after the end of the first start
\* marker, 0 when there is none
PNextEnd == IndexOfFrom(pbody, PEnd, PSpanStart)

\* the text between the first start marker and the next end marker
PTextBetween == SubSeq(pbody, PSpanStart, PNextEnd - 1)

\* the notes of the item lines of a text, in line order
NotesIn(text) ==
    LET ls == SelectSeq(NonBlankLines(text), IsPlainItemLine)
    IN [k \in 1..Len(ls) |-> Trim(SubSeq(ls[k], 2, Len(ls[k])))]

\* C23: when a start marker is followed later by an end marker, the entries
\* are those of the text between the first start marker and the next end
\* marker after it: the lines before the first start marker, after that end
\* marker and inside a later pair of markers give no entry.
C23_FirstSpanOnly ==
    (ppc = "parsed" /\ PFirstStart # 0 /\ PNextEnd # 0) =>
        [k \in 1..Len(presult.items) |-> presult.items[k].note] = NotesIn(PTextBetween)

\* The description with item lines before the block, after it and in a second
\* block was parsed: only the item of the first block was returned.
C23_Witness ==
    /\ ppc = "parsed"
    /\ pbody = BodyTwoBlocks(pmarkers)
    /\ Len(NotesIn(pbody)) > 1
    /\ Len(presult.items) = 1
    /\ presult.items[1].note = <<"a">>

(***************************************************************************)
(* Claims about upsertLinkSection                                          *)
(***************************************************************************)
\* Number of occurrences of the marker in a text.
MarkerCount(text) == Cardinality({i \in 1..Len(text) : text[i] = LINK_SECTION_MARKER})

\* The text holds one marker-delimited block, it is "marker, [label](link),
\* marker", and the marker occurs nowhere else.
ExactlyOneSection(text, link, label) ==
    /\ MarkerCount(text) = 2
    /\ Includes(text, LinkSection(link, label))

IsPrefix(p, text) == Len(p) <= Len(text) /\ SubSeq(text, 1, Len(p)) = p

\* C5: applying upsertLinkSection again with the same link and label to its
\* own result gives that result back.
C5_Idempotent ==
    ucount >= 1 => upsertLinkSection(ubody, ulink, ulabel) = ubody

\* C6: whatever the body, link and label, the returned body holds exactly one
\* marker-delimited section, the one for this link and label.
C6_ExactlyOneSection ==
    ucount >= 1 => ExactlyOneSection(ubody, ulink, ulabel)

\* C7: from a body without the marker, after one or more applications whose
\* links and labels hold no marker, the body has exactly one section, it
\* holds the last link and label, and the original body is still its prefix.
C7_RepeatedRunsOneSection ==
    (ucount >= 1 /\ ~Includes(uorig, MARKER))
        => (ExactlyOneSection(ubody, ulink, ulabel) /\ IsPrefix(uorig, ubody))

IsSuffix(q, text) == Len(q) <= Len(text) /\ SubSeq(text, Len(text) - Len(q) + 1, Len(text)) = q

\* one application leaves everything outside the link section as it was: a
\* body without the marker is followed by a blank line and the new section;
\* in a body with a section, the text before the first marker and the text
\* after the next marker stay, and what stands between them begins and ends
\* with the marker; a body with a single marker comes back as it is
FrameKept ==
    LET i == IndexOfFrom(ubody, MARKER, 1)
        j == IndexOfFrom(ubody, MARKER, i + 1)
        before == SubSeq(ubody, 1, i - 1)
        after == SubSeq(ubody, j + 1, Len(ubody))
    IN IF i = 0 THEN ubody' = ubody \o <<NL, NL>> \o LinkSection(ulink', ulabel')
       ELSE IF j = 0 THEN ubody' = ubody
       ELSE /\ Len(ubody') >= Len(before) + Len(after) + 2
            /\ IsPrefix(before \o MARKER, ubody')
            /\ IsSuffix(MARKER \o after, ubody')

\* C28: upsertLinkSection changes nothing outside the link section: without
\* a marker the result is the body, a blank line and the new section; with a
\* section, only the first one is replaced and the text before its opening
\* marker and after its closing marker is unchanged.
C28_FrameKept == [][ucount' # ucount => FrameKept]_vars

\* A body "a", an old section, "a": one application put the new section
\* between the two "a".
C28_Witness ==
    /\ ucount = 1
    /\ uorig = <<"a", LINK_SECTION_MARKER, LINK_SECTION_MARKER, "a">>
    /\ ulabel = <<"b">>
    /\ ubody = <<"a">> \o LinkSection(ulink, ulabel) \o <<"a">>

(***************************************************************************)
(* Claims about one run                                                    *)
(***************************************************************************)
\* fetchMergedPrsBetween has returned to run
FetchReturned == pc = "sources" \/ allSources # <<>>

\* the parse loop of run has finished
ParseFinished == allSources # <<>> /\ pc # "parse"

\* position in allSources of the document an item was read from
SourcePos(item) == CHOOSE k \in 1..Len(allSources) : allSources[k].url = item.prUrl

ItemSources == {allItems[k].prUrl : k \in 1..Len(allItems)}

\* C1: the records fetchMergedPrsBetween returns are in the order of the
\* collected PR numbers whatever the order in which the requests of a batch
\* complete, and the aggregated items follow the order of their documents.
C1_FetchKeepsOrder ==
    /\ Len(results) <= Len(allPrNumbers)
    /\ \A k \in 1..Len(results) : results[k].number = allPrNumbers[k]
    /\ FetchReturned => Len(results) = Len(allPrNumbers)
    /\ \A i, j \in 1..Len(allItems) :
           i < j => SourcePos(allItems[i]) <= SourcePos(allItems[j])

\* Two batches were fetched, a request overtook an earlier one, and items of
\* at least three documents were aggregated.
C1_Witness ==
    /\ pc = "done"
    /\ setFailed = <<>>
    /\ reordered
    /\ Len(allPrNumbers) > PARALLEL_BATCH_SIZE
    /\ Cardinality(ItemSources) >= 3

Called(name) == \E k \in 1..Len(destCalls) : destCalls[k] = name

\* appendToSheet began to create the tab and did not return
AppendFailed == pc = "done" /\ Called("addSheet") /\ ~appendReturned

\* C2: the link is upserted and the PR body updated only after appendToSheet
\* returned; when creating or writing the tab fails the run is marked failed
\* and the PR body is not updated.
C2_LinkOnlyAfterAppend ==
    /\ (nextBody # <<>> \/ postedBody # <<>> \/ Called("pulls.update")) => appendReturned
    /\ pc \in {"link", "update"} => appendReturned
    /\ AppendFailed => (Len(setFailed) = 1 /\ ~Called("pulls.update") /\ postedBody = <<>>)

\* The tab was written and the PR body was updated with the link section.
C2_Witness ==
    /\ pc = "done"
    /\ appendReturned
    /\ Called("pulls.update")
    /\ postedBody = nextBody
    /\ Includes(postedBody, MARKER)

\* C3: with zero aggregated items the run stops: no grid, no call to the
\* spreadsheet, no PR body update, and the run is not marked failed.
C3_EmptyAggregateStops ==
    (ParseFinished /\ allItems = <<>>) =>
        /\ pc \in {"layout", "done"}
        /\ values = <<>>
        /\ destCalls = <<>>
        /\ nextBody = <<>>
        /\ postedBody = <<>>
        /\ setFailed = <<>>

\* Two documents were parsed, none held an item, and the run has ended.
C3_Witness ==
    /\ pc = "done"
    /\ Len(allSources) >= 2
    /\ allItems = <<>>
    /\ setFailed = <<>>

\* C4: no partial commit: a failed run leaves no tab it created without the
\* grid.
C4_NoPartialCommit ==
    (pc = "done" /\ setFailed # <<>>) =>
        \A tab \in tabs : tab.byRun => (tab.written /\ tab.grid = values)

\* first position of a PR number in the fetched list
FirstIdx(n) == Min({i \in 1..Len(results) : results[i].number = n})

\* the sources that came from the fetched list
MergedPart == SelectSeq(allSources, LAMBDA src : src.mergedAt = "merged")

\* C8: the source list holds each PR number at most once; of the fetched
\* records with one number the first is kept, in the order of the fetched list.
C8_SourcesDeduplicated ==
    allSources # <<>> =>
        /\ \A i, j \in 1..Len(allSources) :
               i # j => allSources[i].number # allSources[j].number
        /\ NumberSet(MergedPart) = NumberSet(results)
        /\ \A k \in 1..Len(MergedPart) :
               MergedPart[k] = results[FirstIdx(MergedPart[k].number)]
        /\ \A k, l \in 1..Len(MergedPart) :
               k < l => FirstIdx(MergedPart[k].number) < FirstIdx(MergedPart[l].number)

\* The fetched list named a PR twice and the source list was built.
C8_Witness ==
    /\ allSources # <<>>
    /\ Len(results) >= 3
    /\ Cardinality(NumberSet(results)) < Len(results)

CurrentCount == Cardinality({k \in 1..Len(allSources) : allSources[k].number = prNumber})

\* C9: the current PR is in the source list exactly once: appended last when
\* its number was not fetched, otherwise the fetched record stays and nothing
\* is appended.
C9_CurrentExactlyOnce ==
    allSources # <<>> =>
        /\ CurrentCount = 1
        /\ IF prNumber \in NumberSet(results)
           THEN /\ Len(allSources) = Cardinality(NumberSet(results))
                /\ \A k \in 1..Len(allSources) : allSources[k].mergedAt = "merged"
           ELSE /\ allSources[Len(allSources)] = currentPrSource
                /\ Len(allSources) = Cardinality(NumberSet(results)) + 1

\* The current PR was among the fetched ones and the source list was built.
C9_Witness ==
    /\ allSources # <<>>
    /\ prNumber \in NumberSet(results)
    /\ Len(allSources) >= 2

(***************************************************************************)
(* Claims about the per-reviewer variant                                   *)
(***************************************************************************)
\* the trimmed non-blank lines of the block the parser reads for a reviewer
BlockLines(body, reviewer) == NonBlankLines(FenceMatch(body, ReviewerTag(reviewer)).group)

\* the line is "- [c]" followed by at least one more character
IsCheckboxLine(line, c) ==
    /\ Len(line) > 5
    /\ SubSeq(line, 1, 5) = <<"-", " ", "[", c, "]">>

\* the entries the checkbox lines stand for: done for x and X, not done for a
\* space, the note the trimmed text after the bracket
ExpectedEntries(lines, prUrl, author) ==
    LET boxes == SelectSeq(lines, LAMBDA l : \E c \in {" ", "x", "X"} : IsCheckboxLine(l, c))
    IN [i \in 1..Len(boxes) |->
           [done |-> ~IsCheckboxLine(boxes[i], " "),
            note |-> Trim(SubSeq(boxes[i], 6, Len(boxes[i]))),
            prUrl |-> prUrl, author |-> author]]

ExpectedFor(reviewer) ==
    Concat([d \in 1..Len(rsources) |->
        ExpectedEntries(BlockLines(rsources[d].body, reviewer),
                        rsources[d].url, rsources[d].author)])

ReviewersParsed == rpc \in {"parsed", "laid"} \/ (rpc = "done" /\ ~rthrew)

\* C11: in per-reviewer mode every line "- [c] text" of a block gives an
\* entry, not done when c is a space and done when c is x or X, whose note is
\* the trimmed text after the bracket; the entries come in the order of the
\* lines.
C11_CheckboxLinesParsed ==
    ReviewersParsed =>
        \A k \in 1..Len(rparsed) : rparsed[k].items = ExpectedFor(rparsed[k].reviewer)

HasEntry(items, done, note) ==
    \E i \in 1..Len(items) : items[i].done = done /\ items[i].note = note

\* A block held "- [X] v" and another "- [ ]q": both lines gave their entry.
C11_Witness ==
    /\ rpc = "laid"
    /\ Len(rparsed) = 2
    /\ HasEntry(rparsed[1].items, TRUE, <<"v">>)
    /\ HasEntry(rparsed[1].items, TRUE, <<"p">>)
    /\ HasEntry(rparsed[2].items, FALSE, <<"q">>)

\* the line opens a bracket after "- " and closes it, and what the bracket
\* holds is not one space, one x or one X
IsOtherMarkLine(line) ==
    /\ Len(line) >= 4
    /\ SubSeq(line, 1, 3) = <<"-", " ", "[">>
    /\ \E j \in 4..Len(line) : line[j] = "]"
    /\ LET close == Min({j \in 4..Len(line) : line[j] = "]"})
       IN SubSeq(line, 4, close - 1) \notin { <<" ">>, <<"x">>, <<"X">> }

\* the entries of a list that were read from one document
EntriesFrom(items, source) == SelectSeq(items, LAMBDA it : it.prUrl = source.url)

\* the entry can be the reading of the line: the line is "- [c]" and a note,
\* with c a space, x or X, and the entry has that note and that state
IsReadingOf(entry, line) ==
    \E c \in {" ", "x", "X"} :
        /\ IsCheckboxLine(line, c)
        /\ entry.note = Trim(SubSeq(line, 6, Len(line)))
        /\ entry.done = (c # " ")

\* C22: in per-reviewer mode a line whose bracket holds anything but one
\* space, one x or one X gives no entry: the entries read from a document
\* are no more than the other lines of the block, and each is the reading of
\* a line whose bracket holds a space, x or X.
C22_OtherMarksSkipped ==
    ReviewersParsed =>
        \A k \in 1..Len(rparsed) : \A d \in 1..Len(rsources) :
            LET lines == BlockLines(rsources[d].body, rparsed[k].reviewer)
                mine == EntriesFrom(rparsed[k].items, rsources[d])
                other == {j \in 1..Len(lines) : IsOtherMarkLine(lines[j])}
            IN /\ Len(mine) + Cardinality(other) <= Len(lines)
               /\ \A i \in 1..Len(mine) :
                      \E j \in (1..Len(lines)) \ other : IsReadingOf(mine[i], lines[j])

\* The block of the second reviewer held "- [ ]q" and three lines whose
\* brackets hold nothing, two characters and a dash: q is its only entry.
C22_Witness ==
    /\ rpc = "laid"
    /\ Len(rparsed) = 2
    /\ rsources[1].body = TwoBlockBody
    /\ Cardinality({j \in 1..Len(BlockLines(TwoBlockBody, rparsed[2].reviewer)) :
                       IsOtherMarkLine(BlockLines(TwoBlockBody, rparsed[2].reviewer)[j])}) = 3
    /\ Len(EntriesFrom(rparsed[2].items, rsources[1])) = 1
    /\ HasEntry(rparsed[2].items, FALSE, <<"q">>)

(***************************************************************************)
(* Claims about columnToLetter                                             *)
(***************************************************************************)
\* the digit a letter stands for in bijective base 26: A is 1, Z is 26
LetterValue(ch) == CHOOSE v \in 1..26 : Letters[v] = ch

\* the number a column name stands for in bijective base 26: A is 1, Z is
\* 26, AA is 27, ZZ is 702; two different names stand for different numbers
RECURSIVE NameValue(_)
NameValue(name) ==
    IF name = <<>> THEN 0
    ELSE 26 * NameValue(SubSeq(name, 1, Len(name) - 1)) + LetterValue(name[Len(name)])

ColumnReturned ==
    cpc = "returned" =>
        /\ cletter # <<>>
        /\ NameValue(cletter) = ccolumn + 1
        /\ cletter = columnToLetter(ccolumn)
        /\ ccolumn = 0 => cletter = <<"A">>
        /\ ccolumn = 25 => cletter = <<"Z">>
        /\ ccolumn = 26 => cletter = <<"A", "A">>
        /\ ccolumn = 701 => cletter = <<"Z", "Z">>

\* each iteration makes temp smaller, and temp never goes below -1
ColumnLoopDecreases == cpc' = "loop" => (ctemp' < ctemp /\ ctemp' >= 0 - 1)

\* C13: for every non-negative column index columnToLetter returns its name
\* in bijective base 26 (0 is A, 25 is Z, 26 is AA, 701 is ZZ), so different
\* indexes get different names, and the loop ends.
C13_ColumnNaming ==
    /\ []ColumnReturned
    /\ [][ColumnLoopDecreases]_vars
    /\ <>(cpc = "returned")

\* The call for column 701 went twice round the loop and returned ZZ.
C13_Witness ==
    /\ cpc = "returned"
    /\ ccolumn = 701
    /\ cletter = <<"Z", "Z">>
    /\ ctemp = 0 - 1

(***************************************************************************)
(* Claims about buildSideBySideRows                                        *)
(***************************************************************************)
\* the grid has rowCount rows and every row has four cells per participant
IsRectangle(grid, rowCount, k) ==
    /\ Len(grid) = rowCount
    /\ \A r \in 1..Len(grid) : Len(grid[r]) = 4 * k

ListLengths == {Len(lparsed[k].items) : k \in 1..Len(lparsed)}

\* C14: for a roster of k participants with lists of lengths l1..lk the grid
\* has max(l1..lk) + 2 rows, and each of them, the two header rows included,
\* has 4k cells; in the shared-roster variant every participant has the one
\* shared list.
C14_Rectangular ==
    /\ lpc = "shared" => IsRectangle(lvalues, Len(litems) + 2, Len(lmembers))
    /\ lpc = "perReviewer" => IsRectangle(lvalues, Max(ListLengths) + 2, Len(lparsed))

\* Three reviewers with lists of three different lengths, one of them empty,
\* were laid out.
C14_Witness ==
    /\ lpc = "perReviewer"
    /\ Len(lparsed) = 3
    /\ Cardinality(ListLengths) = 3
    /\ 0 \in ListLengths
    /\ Len(lvalues) = Max(ListLengths) + 2

\* the four cells of participant p (1-based) in a row of the grid
BlockOf(row, p) == SubSeq(row, 4 * (p - 1) + 1, 4 * p)

\* what the cells of a block hold, whatever their kind
ValuesOf(cells) == [c \in 1..Len(cells) |-> cells[c].v]

EmptyBlock == <<TextCell(""), TextCell(""), TextCell(""), TextCell("")>>

\* C24: in the per-reviewer layout the block of participant p in data row i
\* holds done, prUrl, author and note of p's entry i in this order when p has
\* an entry i, and four empty strings when p's list is shorter; so the filled
\* rows of p's block are p's entries, each once and in order.
C24_BlockCells ==
    lpc = "perReviewer" =>
        \A p \in 1..Len(lparsed) :
            LET items == lparsed[p].items
            IN /\ \A i \in 1..(Len(lvalues) - 2) :
                      IF i <= Len(items)
                      THEN ValuesOf(BlockOf(lvalues[i + 2], p)) =
                               <<items[i].done, items[i].prUrl, items[i].author, items[i].note>>
                      ELSE BlockOf(lvalues[i + 2], p) = EmptyBlock
               /\ Cardinality({i \in 1..(Len(lvalues) - 2) :
                                   BlockOf(lvalues[i + 2], p) # EmptyBlock}) = Len(items)

\* Two reviewers, the first with three entries and the second with one: the
\* third data row holds the first one's third entry and an empty block.
C24_Witness ==
    /\ lpc = "perReviewer"
    /\ Len(lparsed) = 2
    /\ Len(lparsed[1].items) = 3
    /\ Len(lparsed[2].items) = 1
    /\ ValuesOf(BlockOf(lvalues[5], 1)) = <<FALSE, PrUrl(3), "alice", <<"n", 3>> >>
    /\ BlockOf(lvalues[5], 2) = EmptyBlock

\* the cell of the first header row that shows the ratio of participant p
RatioOf(p) == lvalues[1][4 * p]

\* the data rows in which the checkbox cell of participant p is TRUE
CheckedRows(p) ==
    {r \in 3..Len(lvalues) : BlockOf(lvalues[r], p)[1] = BoolCell(TRUE)}

\* C25: in the per-reviewer layout the ratio in the first header row of
\* participant p is doneCount/total, total being the number of p's entries
\* and doneCount the number of them that are done; 0 <= doneCount <= total,
\* and doneCount is the number of TRUE cells of p's checkbox column.
C25_RatioCounts ==
    lpc = "perReviewer" =>
        \A p \in 1..Len(lparsed) :
            /\ RatioOf(p).t = "ratio"
            /\ RatioOf(p).total = Len(lparsed[p].items)
            /\ RatioOf(p).done = Len(SelectSeq(lparsed[p].items, LAMBDA it : it.done))
            /\ RatioOf(p).done \in 0..RatioOf(p).total
            /\ RatioOf(p).done = Cardinality(CheckedRows(p))

\* A reviewer with three entries of which one is done: the ratio is 1/3 and
\* one checkbox cell of the column is TRUE; another reviewer has no entry:
\* 0/0.
C25_Witness ==
    /\ lpc = "perReviewer"
    /\ Len(lparsed) = 2
    /\ RatioOf(1) = RatioCell(1, 3)
    /\ Cardinality(CheckedRows(1)) = 1
    /\ RatioOf(2) = RatioCell(0, 0)

(***************************************************************************)
(* Claims about the column offsets of the shared-roster layout             *)
(***************************************************************************)
\* participant indexes p of the roster, from 0
Participants == 0..(Len(members) - 1)

RequestsOfKind(kind) == SelectSeq(requests, LAMBDA req : req.kind = kind)

\* the cell of a grid row at a column index that counts from 0
CellAt(row, columnIndex) == row[columnIndex + 1]

\* the checkbox value of every data row of p is at column index 4p, and the
\* formula of p's header block counts column 4p
GridUsesOffset(p) ==
    /\ \A r \in 3..Len(values) :
           /\ CellAt(values[r], 4 * p).t = "bool"
           /\ \A c \in 1..3 : CellAt(values[r], 4 * p + c).t # "bool"
    /\ CellAt(values[1], 4 * p + 1).t = "formula"
    /\ CellAt(values[1], 4 * p + 1).col = columnToLetter(4 * p)
    /\ NameValue(CellAt(values[1], 4 * p + 1).col) = 4 * p + 1

\* the conditional-format rule and the data-validation request of p are on
\* column 4p
RequestsUseOffset(p) ==
    /\ RequestsOfKind("addConditionalFormatRule")[p + 1].range.startColumnIndex = 4 * p
    /\ RequestsOfKind("addConditionalFormatRule")[p + 1].condition.col = columnToLetter(4 * p)
    /\ NameValue(RequestsOfKind("addConditionalFormatRule")[p + 1].condition.col) = 4 * p + 1
    /\ RequestsOfKind("setDataValidation")[p + 1].range.startColumnIndex = 4 * p
    /\ RequestsOfKind("setDataValidation")[p + 1].range.endColumnIndex = 4 * p + 1

\* C15: in the shared-roster layout the checkbox of participant p is the
\* cell at column index 4p of every data row, and the completion formula of
\* p's header block, p's conditional-format rule and p's checkbox validation
\* request all refer to column 4p; there is one rule and one validation
\* request per participant.
C15_CheckboxColumnOffsets ==
    /\ values # <<>> => \A p \in Participants : GridUsesOffset(p)
    /\ requests # <<>> =>
           /\ Len(RequestsOfKind("addConditionalFormatRule")) = Len(members)
           /\ Len(RequestsOfKind("setDataValidation")) = Len(members)
           /\ \A p \in Participants : RequestsUseOffset(p)

\* Roster [Alice, Bob] and three entries: five rows of eight cells, written
\* and formatted, checkboxes at column indexes 0 and 4.
C15_Witness ==
    /\ requests # <<>>
    /\ members = <<"Alice", "Bob">>
    /\ Len(allItems) = 3
    /\ Len(values) = 5
    /\ \A r \in 1..5 : Len(values[r]) = 8
    /\ CellAt(values[3], 0).t = "bool"
    /\ CellAt(values[3], 4).t = "bool"
    /\ RequestsOfKind("setDataValidation")[2].range.startColumnIndex = 4

\* the rows of the grid, counted from 1, that hold checkbox values
DataRows == {r \in 1..Len(values) : \E c \in 1..Len(values[r]) : values[r][c].t = "bool"}

\* COUNTIF(col from : col to, TRUE) = equals counts the rows from..to and is
\* compared with their number
CountsRows(cond, rows) ==
    /\ (cond.from)..(cond.to) = rows
    /\ cond.equals = Cardinality(rows)

\* C26: in the shared-roster layout with n >= 1 entries the data rows are the
\* rows 3 to n + 2; the completion formula of every participant and the
\* conditional-format rule count the TRUE cells of exactly these rows and
\* compare the count with n, and the checkbox validation covers the row
\* indexes 2 to n + 1; the row count buildFormattingRequests derives, the
\* number of rows less 2, is n.
C26_DataRowRanges ==
    LET n == Len(allItems)
    IN /\ values # <<>> =>
              /\ n >= 1
              /\ Len(values) - 2 = n
              /\ DataRows = 3..(n + 2)
              /\ \A p \in Participants :
                     CountsRows(CellAt(values[1], 4 * p + 1), DataRows)
       /\ requests # <<>> =>
              \A p \in Participants :
                  /\ CountsRows(RequestsOfKind("addConditionalFormatRule")[p + 1].condition,
                                DataRows)
                  /\ RequestsOfKind("setDataValidation")[p + 1].range.startRowIndex = 2
                  /\ RequestsOfKind("setDataValidation")[p + 1].range.endRowIndex = n + 2
                  /\ {r - 1 : r \in DataRows} =
                         (RequestsOfKind("setDataValidation")[p + 1].range.startRowIndex)
                         ..(RequestsOfKind("setDataValidation")[p + 1].range.endRowIndex - 1)

\* Two participants and two entries, written and formatted: formula and rule
\* count rows 3 to 4 against 2, the validation covers row indexes 2 to 3.
C26_Witness ==
    /\ requests # <<>>
    /\ Len(members) = 2
    /\ Len(allItems) = 2
    /\ CellAt(values[1], 5).to = 4
    /\ RequestsOfKind("addConditionalFormatRule")[2].condition.equals = 2
    /\ RequestsOfKind("setDataValidation")[2].range.endRowIndex = 4

(***************************************************************************)
(* Claims about the blocks a reviewer's list is read from                  *)
(***************************************************************************)
\* the document holds the opening of a fenced block tagged for the reviewer
HasBlockFor(body, reviewer) == Includes(body, Fence \o ReviewerTag(reviewer) \o <<NL>>)

\* the document an entry was read from
SourceOfEntry(item) == CHOOSE d \in 1..Len(rsources) : rsources[d].url = item.prUrl

\* the reviewer whose pattern made the parser throw: the first one whose tag
\* does not compile, at the first document
ThrowingReviewer ==
    rreviewers[Min({k \in 1..Len(rreviewers) : ~FenceCompiles(ReviewerTag(rreviewers[k]))})]

\* C16: the list of reviewer r gets entries only from documents that hold a
\* block opened by the tag "<prefix>-<r.id>": a document without one gives
\* r's list nothing and raises no error, and a block tagged for another id
\* gives r's list nothing.
C16_OnlyOwnBlocks ==
    /\ rthrew => HasBlockFor(rsources[1].body, ThrowingReviewer)
    /\ \A k \in 1..Len(rparsed) : \A i \in 1..Len(rparsed[k].items) :
           HasBlockFor(rsources[SourceOfEntry(rparsed[k].items[i])].body, rparsed[k].reviewer)

(***************************************************************************)
(* Claims about configuration errors                                       *)
(***************************************************************************)
ConfigErrors ==
    { "Members config not found", "Config must be an object with a members array",
      "Members list is empty", "Each member must have a name" }

ConfigFailed == setFailed # <<>> /\ setFailed[1] \in ConfigErrors

\* a roster the configuration reader accepts: not empty, every entry named
IsValidRoster(roster) ==
    /\ roster # <<>>
    /\ \A m \in 1..Len(roster) : roster[m] \notin {"", "null"}

\* C17: a configuration error (no roster file, no members array, an empty
\* roster, an entry without its key) ends the run as failed with that error
\* message, before any pull request is fetched or parsed and before any call
\* to the destination; the run goes past the configuration only with a valid
\* roster.
C17_ConfigErrorStopsRun ==
    /\ ConfigFailed =>
           /\ pc = "done"
           /\ Len(setFailed) = 1
           /\ members = <<>>
           /\ allPrNumbers = <<>> /\ results = <<>> /\ batchResults = <<>>
           /\ allSources = <<>> /\ allItems = <<>> /\ values = <<>>
           /\ tabs = {} /\ destCalls = <<>> /\ nextBody = <<>> /\ postedBody = <<>>
    /\ pc \notin {"start", "done"} => IsValidRoster(members)
    /\ (pc = "done" /\ ~IsValidRoster(members)) =>
           /\ allPrNumbers = <<>> /\ allSources = <<>> /\ destCalls = <<>>

\* The roster file had an entry without a name: the run ended failed with
\* that message and nothing was fetched or written.
C17_Witness ==
    /\ pc = "done"
    /\ setFailed = <<"Each member must have a name">>
    /\ allPrNumbers = <<>>
    /\ destCalls = <<>>

(***************************************************************************)
(* Claims about the update of the PR body                                  *)
(***************************************************************************)
\* append-pr-link was "true": run computed the upserted body
LinkingEnabled == nextBody # <<>>

UpdateCalls == Cardinality({k \in 1..Len(destCalls) : destCalls[k] = "pulls.update"})

\* C18: pulls.update is called only when linking is enabled and the upserted
\* body differs from the body of the pull request, and then once, with the
\* upserted body; when the two are equal no update is sent.
C18_UpdateOnlyWhenBodyDiffers ==
    /\ UpdateCalls <= 1
    /\ (pc = "update" \/ Called("pulls.update")) => (LinkingEnabled /\ nextBody # prBody)
    /\ postedBody # <<>> => (Called("pulls.update") /\ postedBody = nextBody)
    /\ (pc = "done" /\ setFailed = <<>> /\ LinkingEnabled /\ nextBody # prBody)
           => Called("pulls.update")

\* Linking was enabled, the upserted body came out equal to the PR body, and
\* the run ended without an update call.
C18_Witness ==
    /\ pc = "done"
    /\ appendReturned
    /\ LinkingEnabled
    /\ nextBody = prBody
    /\ ~Called("pulls.update")

(***************************************************************************)
(* Claims about the tab title                                              *)
(***************************************************************************)
\* the titles spreadsheets.get answered with
ExistingTitles == {tab.title : tab \in {t \in tabs : ~t.byRun}}

TitleChosen == sheetTitle # 0

\* C19: the title appendToSheet chooses is not among the titles it read: it
\* is the date title (1) when that is free, otherwise the first free one of
\* date-2, date-3, ...; the loop makes at most one round per title read.
C19_TitleIsUnused ==
    TitleChosen =>
        /\ sheetTitle \notin ExistingTitles
        /\ \A n \in 1..(sheetTitle - 1) : n \in ExistingTitles
        /\ sheetTitle <= Cardinality(ExistingTitles) + 1

\* The date title and date-2 were taken: the run created and wrote date-3.
C19_Witness ==
    /\ {1, 2} \subseteq ExistingTitles
    /\ sheetTitle = 3
    /\ \E tab \in tabs : tab.byRun /\ tab.title = 3 /\ tab.written

(***************************************************************************)
(* Claims about the requests in flight                                     *)
(***************************************************************************)
\* positions in allPrNumbers of the requests in flight
InFlight == {batchI + k : k \in pending}

\* at most PARALLEL_BATCH_SIZE requests are in flight, all of the current
\* batch, and every earlier position has its record in results
WindowBounded ==
    /\ Cardinality(InFlight) <= PARALLEL_BATCH_SIZE
    /\ \A q \in InFlight : q > batchI /\ q <= batchI + PARALLEL_BATCH_SIZE
                           /\ q <= Len(allPrNumbers)
    /\ InFlight # {} =>
           /\ Len(results) = batchI
           /\ \A q \in 1..batchI : results[q] # NoResult

\* requests are issued only while none is in flight
IssuedOnlyWhenIdle == (pending' \ pending # {}) => pending = {}

\* C20: while the PR details are fetched at most 10 requests are in flight,
\* and the requests of a batch are issued only after every request of the
\* batch before has completed.
C20_BoundedWindow ==
    /\ []WindowBounded
    /\ [][IssuedOnlyWhenIdle]_vars

\* The first batch of ten has completed and the requests of the second batch
\* are in flight.
C20_Witness ==
    /\ pc = "inflight"
    /\ batchI = PARALLEL_BATCH_SIZE
    /\ Len(results) = PARALLEL_BATCH_SIZE
    /\ pending # {}

(***************************************************************************)
(* Claims about errors thrown inside run                                   *)
(***************************************************************************)
\* the stages of run in the order of the code, and the errors each can throw
Stages ==
    <<"start", "client", "search", "inflight", "sources", "parse", "layout", "auth",
      "getsheet", "addsheet", "write", "format", "link", "update">>

StageRank(stage) == CHOOSE r \in 1..Len(Stages) : Stages[r] = stage

ErrorsOf(stage) ==
    CASE stage = "start" -> ConfigErrors
      [] stage = "client" -> {"GITHUB_TOKEN not set; cannot fetch PR history", "listTags failed"}
      [] stage = "search" -> {"search failed"}
      [] stage = "inflight" -> {"pulls.get failed"}
      [] stage = "layout" -> {"Input required and not supplied: sheet-id"}
      [] stage = "auth" -> {"authentication failed"}
      [] stage = "getsheet" -> {"spreadsheets.get failed"}
      [] stage = "addsheet" -> {"addSheet failed"}
      [] stage = "write" -> {"values.update failed"}
      [] stage = "format" -> {"batchUpdate failed"}
      [] stage = "update" -> {"pulls.update failed"}
      [] OTHER -> {}

\* the rank of the stage that threw the message
FailedRank(message) ==
    StageRank(CHOOSE stage \in {Stages[r] : r \in 1..Len(Stages)} : message \in ErrorsOf(stage))

\* what the stages from rank r on produce is still as it was at the start;
\* a fetch that fails has collected the batches before the failing one, and
\* the grid is built before the required inputs of the layout stage are read
NothingFrom(r) ==
    /\ r <= StageRank("start") => members = <<>>
    /\ r <= StageRank("search") => allPrNumbers = <<>>
    /\ r < StageRank("inflight") => results = <<>>
    /\ r <= StageRank("sources") => allSources = <<>>
    /\ r <= StageRank("parse") => allItems = <<>>
    /\ r < StageRank("layout") => values = <<>>
    /\ r <= StageRank("getsheet") => (sheetTitle = 0 /\ tabs = {})
    /\ r <= StageRank("addsheet") => (createdSheetId = "undefined" /\ \A tab \in tabs : ~tab.byRun)
    /\ r <= StageRank("write") => \A tab \in tabs : tab.byRun => ~tab.written
    /\ r <= StageRank("format") => (requests = <<>> /\ ~appendReturned)
    /\ r <= StageRank("link") => nextBody = <<>>
    /\ r <= StageRank("update") => postedBody = <<>>

\* a call to the destination or to pulls.update is made at most once
NoCallRepeated == \A i, j \in 1..Len(destCalls) : destCalls[i] = destCalls[j] => i = j

\* the run is marked failed once, has ended, and no stage after the failing
\* one has produced anything
FailedRunStopped ==
    setFailed # <<>> =>
        /\ Len(setFailed) = 1
        /\ pc = "done"
        /\ NothingFrom(FailedRank(setFailed[1]))

\* the step that marks the run failed is the throw of the stage the run is
\* at, with the message of that stage's error, and it ends the run; once
\* the run is marked failed no step follows
FailingStep ==
    /\ setFailed' # setFailed =>
           /\ setFailed = <<>>
           /\ Len(setFailed') = 1
           /\ setFailed'[1] \in ErrorsOf(pc)
           /\ pc' = "done"
    /\ setFailed # <<>> => UNCHANGED runVars

\* C27: an error thrown at any stage of run ends the run: it is caught at the
\* top of run, the run is marked failed exactly once with the message of the
\* error, no call is made twice, and no stage after the failing one runs.
C27_ErrorAbortsRun ==
    /\ [](FailedRunStopped /\ NoCallRepeated)
    /\ [][FailingStep]_vars

\* The tab was created and written, formatting failed: the run is marked
\* failed with that error and neither the link nor the update took place.
C27_Witness ==
    /\ pc = "done"
    /\ setFailed = <<"batchUpdate failed">>
    /\ \E tab \in tabs : tab.byRun /\ tab.written
    /\ nextBody = <<>>
    /\ ~Called("pulls.update")

(***************************************************************************)
(* Claims about the start cell                                             *)
(***************************************************************************)
\* values.update writes the grid from the start cell to the right and down:
\* the cells, <<row, column>> counted from 0, of a tab that hold the checkbox
\* values of participant p
WrittenCheckboxCells(tab, p) ==
    { <<tab.origin[1] + r - 1, tab.origin[2] + 4 * p>> :
        r \in {q \in 1..Len(tab.grid) : CellAt(tab.grid[q], 4 * p).t = "bool"} }

\* the cells of a grid range of the API: end indexes are exclusive
CellsOfRange(range) ==
    { <<r, c>> : r \in (range.startRowIndex)..(range.endRowIndex - 1),
                 c \in (range.startColumnIndex)..(range.endColumnIndex - 1) }

\* the cells COUNTIF(col from : col to, TRUE) counts
CellsCounted(cond) == { <<r - 1, NameValue(cond.col) - 1>> : r \in (cond.from)..(cond.to) }

\* the formula, the rule and the validation of p refer to the cells that
\* hold p's checkbox values
RangesAligned(tab, p) ==
    /\ CellsCounted(CellAt(tab.grid[1], 4 * p + 1)) = WrittenCheckboxCells(tab, p)
    /\ CellsCounted(RequestsOfKind("addConditionalFormatRule")[p + 1].condition)
           = WrittenCheckboxCells(tab, p)
    /\ CellsOfRange(RequestsOfKind("setDataValidation")[p + 1].range)
           = WrittenCheckboxCells(tab, p)

\* C30: whatever the start cell, the cells the completion formula, the
\* conditional-format rule and the checkbox validation of a participant
\* refer to are the cells the participant's checkbox values were written to.
C30_RangesAligned ==
    requests # <<>> =>
        \A tab \in tabs : tab.byRun => \A p \in Participants : RangesAligned(tab, p)

\* the same for the runs whose start cell is A1
AlignedAtA1 ==
    (requests # <<>> /\ startCell = <<0, 0>>) =>
        \A tab \in tabs : tab.byRun => \A p \in Participants : RangesAligned(tab, p)

(***************************************************************************)
(* Claims about runs that write to one spreadsheet at the same time        *)
(***************************************************************************)
\* the tabs a step adds to the spreadsheet
AddedTabs == gtabs' \ gtabs

\* a tab is added with a title no tab has at that moment
AddsUnusedTitle == \A tab \in AddedTabs : tab.title \notin TitlesOf(gtabs)

\* no two runs have chosen the same title
TitlesDiffer ==
    \A r1, r2 \in Runs : (r1 # r2 /\ gtitle[r1] # 0 /\ gtitle[r2] # 0) => gtitle[r1] # gtitle[r2]

\* C29: when two runs on one spreadsheet interleave, each creates its own
\* tab, with a title no tab has at the moment of its addSheet call: the two
\* runs never choose the same title and neither fails to create its tab.
C29_DistinctTitles ==
    /\ [](TitlesDiffer /\ \A r \in Runs : gpc[r] # "failed")
    /\ [][AddsUnusedTitle]_vars
====
